---- MODULE Spec2Model ----
(***************************************************************************)
(* Joshoeixi Vape inventory: the Express item store (validation, create,   *)
(* update, delete) in its two server builds, and the React client's        *)
(* submit flows that drive it.                                             *)
(*                                                                         *)
(* JavaScript values are records [k, s, v]: k is the type tag, s the text  *)
(* of a string, v the magnitude of a finite number counted in halves (the  *)
(* integer v stands for the number v / 2, so that fractional stock and     *)
(* prices exist in the model).                                             *)
(***************************************************************************)
EXTENDS Integers, Sequences, FiniteSets, TLC

\* ------------------------------------------------------------------ bounds
MaxItems == 6      \* the API caller posts no item once the store holds this many
MaxTasks == 2      \* calls of the client's handlers that reach a fetch, in one run
MaxStock == 20     \* no stock is added beyond this quantity
MaxSales == 2      \* sales recorded in one session
MaxClientItems == 7 \* the client adds no item beyond this size of the store

\* -------------------------------------------------------------- JS values
Undefined == [k |-> "undefined", s |-> "", v |-> 0]
Null == [k |-> "null", s |-> "", v |-> 0]
NaN == [k |-> "NaN", s |-> "", v |-> 0]
Infinity == [k |-> "Infinity", s |-> "", v |-> 0]
Str(t) == [k |-> "string", s |-> t, v |-> 0]
Fixed(n) == [k |-> "number", s |-> "", v |-> n]
Num(n) == Fixed(n + n)
\* n + 1/2: a number that is not an integer
Frac(n) == Fixed(n + n + 1)
IsInteger(x) == x.k = "number" /\ x.v % (1 + 1) = 0
\* the integer an integral number stands for
IntOf(x) == x.v \div (1 + 1)

\* x ?? y
\* the operands taken the other way round
CoalesceSwapped(x, y) == IF y.k \in {"undefined", "null"} THEN x ELSE y
Coalesce(x, y) == IF x.k \in {"undefined", "null"} THEN y ELSE x

\* String.prototype.trim over the space character
RECURSIVE TrimStart(_)
TrimStart(t) ==
  IF Len(t) > 0 /\ SubSeq(t, 1, 1) = " " THEN TrimStart(SubSeq(t, 2, Len(t))) ELSE t

RECURSIVE TrimEnd(_)
TrimEnd(t) ==
  IF Len(t) > 0 /\ SubSeq(t, Len(t), Len(t)) = " "
  THEN TrimEnd(SubSeq(t, 1, Len(t) - 1)) ELSE t

Trim(t) == TrimEnd(TrimStart(t))

Digits == <<"0", "1", "2", "3", "4", "5", "6", "7", "8", "9">>
IsDigit(c) == \E d \in 1..10 : Digits[d] = c
DigitVal(c) == (CHOOSE d \in 1..10 : Digits[d] = c) - 1

RECURSIVE IsDigits(_)
IsDigits(t) ==
  Len(t) = 0 \/ (IsDigit(SubSeq(t, Len(t), Len(t))) /\ IsDigits(SubSeq(t, 1, Len(t) - 1)))

RECURSIVE ParseDigits(_)
ParseDigits(t) ==
  IF Len(t) = 0 THEN 0
  ELSE 10 * ParseDigits(SubSeq(t, 1, Len(t) - 1)) + DigitVal(SubSeq(t, Len(t), Len(t)))

\* a - b on numbers
Minus(a, b) == IF a.k = "number" /\ b.k = "number" THEN Fixed(a.v - b.v) ELSE NaN

\* Number of an unsigned decimal: digits with an optional trailing ".5"; the
\* other strings of the model (words) are NaN
DecimalToNumber(w) ==
  IF Len(w) >= 2 /\ SubSeq(w, Len(w) - 1, Len(w)) = ".5"
  THEN IF IsDigits(SubSeq(w, 1, Len(w) - 2))
       THEN Frac(ParseDigits(SubSeq(w, 1, Len(w) - 2))) ELSE NaN
  ELSE IF Len(w) > 0 /\ IsDigits(w) THEN Num(ParseDigits(w)) ELSE NaN

\* Number of a trimmed string: blank is 0, a leading "-" negates
TrimmedToNumber(u) ==
  IF u = "" THEN Num(0)
  ELSE IF SubSeq(u, 1, 1) = "-"
  THEN Minus(Num(0), DecimalToNumber(SubSeq(u, 2, Len(u))))
  ELSE DecimalToNumber(u)

\* Number(t) of a string
StringToNumber(t) == TrimmedToNumber(Trim(t))

\* Number(value): numbers map to themselves, null to 0, strings as above,
\* undefined to NaN.
toNumber(x) ==
  CASE x.k = "number" -> x
    [] x.k = "Infinity" -> x
    [] x.k = "null" -> Num(0)
    [] x.k = "string" -> StringToNumber(x.s)
    [] OTHER -> NaN

\* value.toString().trim() of a string body value
toStringTrim(x) == Str(Trim(x.s))

IsFinite(x) == x.k = "number"
\* a < b on numbers (false when either side is NaN)
Lt(a, b) ==
  CASE a.k = "NaN" \/ b.k = "NaN" -> FALSE
    [] a.k = "Infinity" -> FALSE
    [] b.k = "Infinity" -> TRUE
    [] OTHER -> a.v < b.v
\* !x for the values a field resolves to
Falsy(x) == x.k \in {"undefined", "null", "NaN"} \/ (x.k = "string" /\ x.s = "")
              \/ (x.k = "number" /\ x.v = 0)


\* ------------------------------------------------------------ the server
\* which server build runs: src/server/index.js or the one in part_000
Builds == {"index", "part"}

Item(id, name, brand, category, stock, rawPrice, sellingPrice, minStockAlert) ==
  [id |-> id, name |-> name, brand |-> brand, category |-> category,
   stock |-> stock, rawPrice |-> rawPrice, sellingPrice |-> sellingPrice,
   minStockAlert |-> minStockAlert]

\* let inventory = [...]: the seeded store, the same in both builds
Seed ==
  << Item(1, Str("Strawberry Milk 60ml"), Str("Cloudy Co."), Str("E-Liquid"),
          Num(24), Num(280), Num(450), Num(10)),
     Item(2, Str("Mint Freeze Disposable"), Str("VapeX"), Str("Disposable"),
          Num(15), Num(230), Num(380), Num(8)),
     Item(3, Str("Mesh Coil 0.8"), Str("SmokeLab"), Str("Coils"),
          Num(40), Num(120), Num(220), Num(15)),   \* the name's ohm sign left out
     Item(4, Str("Pod Cartridge 2ml"), Str("VapeX"), Str("Pods"),
          Num(28), Num(95), Num(180), Num(12)),
     Item(5, Str("Battery 18650 3000mAh"), Str("PowerLeaf"), Str("Accessories"),
          Num(12), Num(340), Num(520), Num(6)) >>

\* currentItem when the validator is called without one (create)
NoItem ==
  Item(0, Undefined, Undefined, Undefined, Undefined, Undefined, Undefined, Undefined)

ErrMissingField == "Name, brand, and category are required."
ErrInvalidNumber == "Invalid numeric values."
ErrMissingPrice == "Raw price and selling price are required."
ErrStock == "Stock must be a valid non-negative number."
ErrRawPrice == "Raw price must be a valid non-negative number."
ErrSellingPrice == "Selling price must be a valid non-negative number."
ErrInversion == "Selling price must be greater than or equal to raw price."
ErrMinStockAlert == "Minimum stock alert must be a valid non-negative number."
ErrTypeError == "TypeError"

\* the sign of the stock not looked at
StockInvalidUnsigned(stock) == ~IsFinite(stock)
\* !Number.isFinite(stock) || stock < 0
StockInvalid(stock) == ~IsFinite(stock) \/ Lt(stock, Num(0))

\* the check omitted
PriceInvertedUnchecked(sellingPrice, rawPrice) == FALSE
\* sellingPrice < rawPrice
PriceInverted(sellingPrice, rawPrice) == Lt(sellingPrice, rawPrice)

Failure(msg) == [error |-> msg, item |-> NoItem]
Normalized(currentItem, name, brand, category, stock, rawPrice, sellingPrice, minStockAlert) ==
  [error |-> "",
   item |-> Item(currentItem.id, name, brand, category, stock, rawPrice,
                 sellingPrice, minStockAlert)]

\* src/server/index.js: validateAndNormalizeItem
validateIndex(body, currentItem, isCreate) ==
  LET StrOf(x, cur) == IF x.k \in {"undefined", "null"} THEN cur ELSE toStringTrim(x)
      name == StrOf(body.name, currentItem.name)
      brand == StrOf(body.brand, currentItem.brand)
      category == StrOf(body.category, currentItem.category)
      stock == toNumber(Coalesce(body.stock, currentItem.stock))
      rawPrice == toNumber(Coalesce(body.rawPrice, currentItem.rawPrice))
      sellingPrice ==
        toNumber(Coalesce(body.sellingPrice, Coalesce(body.price, currentItem.sellingPrice)))
      minStockAlert ==
        toNumber(Coalesce(body.minStockAlert, Coalesce(currentItem.minStockAlert, Num(10))))
  IN  IF Falsy(name) \/ Falsy(brand) \/ Falsy(category) THEN Failure(ErrMissingField)
      ELSE IF \/ StockInvalid(stock) \/ ~IsFinite(rawPrice) \/ ~IsFinite(sellingPrice)
              \/ Lt(rawPrice, Num(0))
              \/ PriceInverted(sellingPrice, rawPrice)
           THEN Failure(ErrInvalidNumber)
      ELSE IF isCreate /\ (body.rawPrice.k = "undefined" \/ body.sellingPrice.k = "undefined")
           THEN Failure(ErrMissingPrice)
      ELSE Normalized(currentItem, name, brand, category, stock, rawPrice,
                      sellingPrice, minStockAlert)

\* part_000: validateAndNormalizeItem
validatePart(body, currentItem, isCreate) ==
  LET Given(x, cur) == IF x.k # "undefined" THEN x ELSE cur
      name == IF body.name.k # "undefined" THEN toStringTrim(body.name) ELSE currentItem.name
      brand == IF body.brand.k # "undefined" THEN toStringTrim(body.brand) ELSE currentItem.brand
      category ==
        IF body.category.k # "undefined" THEN toStringTrim(body.category)
        ELSE currentItem.category
      stock == toNumber(Given(body.stock, currentItem.stock))
      rawPrice == toNumber(Given(body.rawPrice, currentItem.rawPrice))
      sellingPrice ==
        toNumber(Given(body.sellingPrice, Given(body.price, currentItem.sellingPrice)))
      minStockAlert ==
        toNumber(Given(body.minStockAlert, Coalesce(currentItem.minStockAlert, Num(10))))
  IN  \* null.toString() throws before anything else is looked at
      IF body.name.k = "null" \/ body.brand.k = "null" \/ body.category.k = "null"
      THEN Failure(ErrTypeError)
      ELSE IF Falsy(name) \/ Falsy(brand) \/ Falsy(category) THEN Failure(ErrMissingField)
      ELSE IF StockInvalid(stock) THEN Failure(ErrStock)
      ELSE IF ~IsFinite(rawPrice) \/ Lt(rawPrice, Num(0)) THEN Failure(ErrRawPrice)
      ELSE IF ~IsFinite(sellingPrice) \/ Lt(sellingPrice, Num(0)) THEN Failure(ErrSellingPrice)
      ELSE IF PriceInverted(sellingPrice, rawPrice) THEN Failure(ErrInversion)
      ELSE IF ~IsFinite(minStockAlert) \/ Lt(minStockAlert, Num(0))
           THEN Failure(ErrMinStockAlert)
      ELSE IF isCreate /\ (body.rawPrice.k = "undefined"
                            \/ (body.sellingPrice.k = "undefined" /\ body.price.k = "undefined"))
           THEN Failure(ErrMissingPrice)
      ELSE Normalized(currentItem, name, brand, category, stock, rawPrice,
                      sellingPrice, minStockAlert)

validateAndNormalizeItem(build, body, currentItem, isCreate) ==
  IF build = "index" THEN validateIndex(body, currentItem, isCreate)
  ELSE validatePart(body, currentItem, isCreate)


\* the profit taken the wrong way round
buildItemResponseSwapped(item) ==
  LET rawPrice == toNumber(item.rawPrice)
      sellingPrice == toNumber(item.sellingPrice)
  IN  [id |-> item.id, name |-> item.name, brand |-> item.brand,
       category |-> item.category, stock |-> item.stock,
       rawPrice |-> rawPrice, sellingPrice |-> sellingPrice,
       minStockAlert |-> toNumber(item.minStockAlert),
       profit |-> Minus(rawPrice, sellingPrice), price |-> sellingPrice]

buildItemResponse(item) ==
  LET rawPrice == toNumber(item.rawPrice)
      sellingPrice == toNumber(item.sellingPrice)
  IN  [id |-> item.id, name |-> item.name, brand |-> item.brand,
       category |-> item.category, stock |-> item.stock,
       rawPrice |-> rawPrice, sellingPrice |-> sellingPrice,
       minStockAlert |-> toNumber(item.minStockAlert),
       profit |-> Minus(sellingPrice, rawPrice), price |-> sellingPrice]

\* ------------------------------------------------------------------ state
VARIABLES
  build,       \* the server build that is running
  inventory,   \* the server's item list
  net,         \* requests sent and not yet handled
  req,         \* the API caller's request handled last, until its response is read
  res,         \* the response to it
  issued,      \* history: every id an item of the store has had
  inbox,       \* responses on their way to the client
  items,       \* client: the item list (useState items)
  search,      \* client: the search box (useState search)
  salesLog,    \* client: the sales log (useState salesLog)
  ui,          \* client: forms, editingId, variant entries, open modals, error
  tasks        \* client: the submit and load handlers awaiting a response

server == <<build, inventory, net, req, res, issued, inbox>>
client == <<items, search, salesLog, ui, tasks>>
vars == <<build, inventory, net, req, res, issued, inbox, items, search, salesLog, ui, tasks>>

Ids(inv) == {inv[i].id : i \in 1..Len(inv)}

RECURSIVE SetMax(_)
SetMax(S) ==
  LET x == CHOOSE y \in S : TRUE
  IN  IF S = {x} THEN x
      ELSE LET m == SetMax(S \ {x}) IN IF x > m THEN x ELSE m

\* the id taken from the length of the list
nextIdByLength(inv) == Len(inv) + 1
\* the first id of an empty store taken to be 0
nextIdFromZero(inv) == IF Len(inv) # 0 THEN SetMax(Ids(inv)) + 1 ELSE 0
nextId(inv) == IF Len(inv) # 0 THEN SetMax(Ids(inv)) + 1 ELSE 1

\* inventory.findIndex((i) => i.id === id), 0 standing for -1
findIndex(inv, id) ==
  IF \E i \in 1..Len(inv) : inv[i].id = id
  THEN CHOOSE i \in 1..Len(inv) :
         inv[i].id = id /\ \A j \in 1..(i - 1) : inv[j].id # id
  ELSE 0

\* { ...a, ...b }
Spread(a, b) ==
  [f \in DOMAIN a \cup DOMAIN b |-> IF f \in DOMAIN b THEN b[f] ELSE a[f]]

NoResponse ==
  [status |-> 0, error |-> "", item |-> buildItemResponse(NoItem), items |-> <<>>]
Response(status, error, item) ==
  [status |-> status, error |-> error, item |-> buildItemResponse(item), items |-> <<>>]
\* res.json(data.map(buildItemResponse))
ListResponse(data) ==
  [status |-> 200, error |-> "", item |-> buildItemResponse(NoItem),
   items |-> [i \in 1..Len(data) |-> buildItemResponse(data[i])]]

\* the response goes back to whoever sent the request: the API caller (tag 0)
\* or the client handler that awaits it
Reply(m, r) ==
  IF m.tag = 0
  THEN res' = r /\ req' = m /\ UNCHANGED inbox
  ELSE inbox' = inbox \cup {[tag |-> m.tag, r |-> r]} /\ UNCHANGED <<req, res>>

\* a thrown error reaches Express's default handler, which answers 500
StatusOfError(error) == IF error = ErrTypeError THEN 500 ELSE 400


\* the item pushed before the validation result is looked at
PostPushFirst(m) ==
  LET validation == validateAndNormalizeItem(build, m.body, NoItem, TRUE)
      newItem == [validation.item EXCEPT !.id = nextId(inventory)]
  IN  /\ m.method = "POST"
      /\ inventory' = Append(inventory, newItem)
      /\ issued' = issued \cup {newItem.id}
      /\ Reply(m, IF validation.error # ""
                   THEN Response(StatusOfError(validation.error), validation.error, NoItem)
                   ELSE Response(201, "", newItem))

\* app.post('/api/items')
Post(m) ==
  LET validation == validateAndNormalizeItem(build, m.body, NoItem, TRUE)
      newItem == [validation.item EXCEPT !.id = nextId(inventory)]
  IN  /\ m.method = "POST"
      /\ IF validation.error # ""
         THEN /\ Reply(m, Response(StatusOfError(validation.error), validation.error, NoItem))
              /\ UNCHANGED <<inventory, issued>>
         ELSE /\ inventory' = Append(inventory, newItem)
              /\ issued' = issued \cup {newItem.id}
              /\ Reply(m, Response(201, "", newItem))

\* the request body spread over the stored item: { ...current, ...item, ...body }
PutSpreadBody(m) ==
  LET index == findIndex(inventory, m.id)
      validation == validateAndNormalizeItem(build, m.body, inventory[index], FALSE)
      merged == Spread(inventory[index], validation.item)
  IN  /\ m.method = "PUT"
      /\ UNCHANGED issued
      /\ IF index = 0
         THEN /\ Reply(m, Response(404, "Item not found.", NoItem))
              /\ UNCHANGED inventory
         ELSE IF validation.error # ""
         THEN /\ Reply(m, Response(StatusOfError(validation.error), validation.error, NoItem))
              /\ UNCHANGED inventory
         ELSE /\ inventory' =
                   [inventory EXCEPT ![index] =
                      IF m.body.id.k = "number"
                      THEN [merged EXCEPT !.id = IntOf(m.body.id)] ELSE merged]
              /\ Reply(m, Response(200, "", inventory'[index]))

\* the body validated as a new item, so that what it omits is defaulted
PutWithoutCurrent(m) ==
  LET index == findIndex(inventory, m.id)
      current == inventory[index]
      validation ==
        validateAndNormalizeItem(build, m.body,
                                 [current EXCEPT !.minStockAlert = Undefined], FALSE)
  IN  /\ m.method = "PUT"
      /\ UNCHANGED issued
      /\ IF index = 0
         THEN /\ Reply(m, Response(404, "Item not found.", NoItem))
              /\ UNCHANGED inventory
         ELSE IF validation.error # ""
         THEN /\ Reply(m, Response(StatusOfError(validation.error), validation.error, NoItem))
              /\ UNCHANGED inventory
         ELSE /\ inventory' = [inventory EXCEPT ![index] = Spread(current, validation.item)]
              /\ Reply(m, Response(200, "", inventory'[index]))

\* the body validated before the item is looked up
PutValidateFirst(m) ==
  LET index == findIndex(inventory, m.id)
      validation == validateAndNormalizeItem(build, m.body,
                      IF index = 0 THEN NoItem ELSE inventory[index], FALSE)
  IN  /\ m.method = "PUT"
      /\ UNCHANGED issued
      /\ IF validation.error # ""
         THEN /\ Reply(m, Response(StatusOfError(validation.error), validation.error, NoItem))
              /\ UNCHANGED inventory
         ELSE IF index = 0
         THEN /\ Reply(m, Response(404, "Item not found.", NoItem))
              /\ UNCHANGED inventory
         ELSE /\ inventory' =
                   [inventory EXCEPT ![index] = Spread(inventory[index], validation.item)]
              /\ Reply(m, Response(200, "", inventory'[index]))

\* app.put('/api/items/:id')
Put(m) ==
  LET index == findIndex(inventory, m.id)
      validation == validateAndNormalizeItem(build, m.body, inventory[index], FALSE)
  IN  /\ m.method = "PUT"
      /\ UNCHANGED issued
      /\ IF index = 0
         THEN /\ Reply(m, Response(404, "Item not found.", NoItem))
              /\ UNCHANGED inventory
         ELSE IF validation.error # ""
         THEN /\ Reply(m, Response(StatusOfError(validation.error), validation.error, NoItem))
              /\ UNCHANGED inventory
         ELSE /\ inventory' =
                   [inventory EXCEPT ![index] = Spread(inventory[index], validation.item)]
              /\ Reply(m, Response(200, "", inventory'[index]))

\* the item removed by position: inventory.splice(findIndex(...), 1), which
\* removes the last item when the index is -1
DeleteBySplice(m) ==
  LET len == Len(inventory)
      index == findIndex(inventory, m.id)
      at == IF index = 0 THEN len ELSE index
      kept == [i \in 1..(len - 1) |-> IF i < at THEN inventory[i] ELSE inventory[i + 1]]
  IN  /\ m.method = "DELETE"
      /\ inventory' = IF len = 0 THEN inventory ELSE kept
      /\ UNCHANGED issued
      /\ Reply(m, IF Len(inventory') = len THEN Response(404, "Item not found.", NoItem)
                   ELSE Response(204, "", NoItem))

\* app.delete('/api/items/:id')
Delete(m) ==
  LET len == Len(inventory)
      kept == SelectSeq(inventory, LAMBDA i : i.id # m.id)
  IN  /\ m.method = "DELETE"
      /\ inventory' = kept
      /\ UNCHANGED issued
      /\ Reply(m, IF Len(kept) = len THEN Response(404, "Item not found.", NoItem)
                   ELSE Response(204, "", NoItem))

\* String.prototype.toLowerCase over the letters A-Z
Upper == "ABCDEFGHIJKLMNOPQRSTUVWXYZ"
Lower == "abcdefghijklmnopqrstuvwxyz"
LowerChar(c) ==
  IF \E i \in 1..Len(Upper) : SubSeq(Upper, i, i) = c
  THEN LET i == CHOOSE j \in 1..Len(Upper) : SubSeq(Upper, j, j) = c IN SubSeq(Lower, i, i)
  ELSE c

RECURSIVE toLowerCase(_)
toLowerCase(t) ==
  IF Len(t) = 0 THEN ""
  ELSE toLowerCase(SubSeq(t, 1, Len(t) - 1)) \o LowerChar(SubSeq(t, Len(t), Len(t)))

\* t.includes(q)
Includes(t, q) ==
  \E i \in 1..(Len(t) - Len(q) + 1) : SubSeq(t, i, i + Len(q) - 1) = q

\* the filter of app.get('/api/items'): index.js lower-cases the query,
\* part_000 trims it first
Query(b, q) == IF b = "index" THEN toLowerCase(q) ELSE toLowerCase(Trim(q))
\* every field has to contain the query
MatchesEveryField(item, q) ==
  \A f \in {item.name, item.brand, item.category} : Includes(toLowerCase(f.s), q)
Matches(item, q) ==
  \E f \in {item.name, item.brand, item.category} : Includes(toLowerCase(f.s), q)

\* app.get('/api/items')
Get(m) ==
  LET q == Query(build, m.q)
      data == IF q # "" THEN SelectSeq(inventory, LAMBDA item : Matches(item, q))
              ELSE inventory
  IN  /\ m.method = "GET"
      /\ UNCHANGED <<inventory, issued>>
      /\ Reply(m, ListResponse(data))

\* the server takes one request off the wire and runs its handler to the end
Taken(m) == net' = net \ {m} /\ UNCHANGED build /\ UNCHANGED client
ServeGet == \E m \in net : Taken(m) /\ Get(m)
ServePost == \E m \in net : Taken(m) /\ Post(m)
ServePut == \E m \in net : Taken(m) /\ Put(m)
ServeDelete == \E m \in net : Taken(m) /\ Delete(m)

\* ------------------------------------------------- requests of the model
Body(name, brand, category, stock, rawPrice, sellingPrice, price, minStockAlert, id) ==
  [name |-> name, brand |-> brand, category |-> category, stock |-> stock,
   rawPrice |-> rawPrice, sellingPrice |-> sellingPrice, price |-> price,
   minStockAlert |-> minStockAlert, id |-> id]

EmptyBody ==
  Body(Undefined, Undefined, Undefined, Undefined, Undefined, Undefined, Undefined,
       Undefined, Undefined)

\* a request of the API caller (tag 0), and one a client handler awaits
Request(method, id, body) ==
  [method |-> method, id |-> id, body |-> body, q |-> "", tag |-> 0]
Fetch(tag, method, id, body, q) ==
  [method |-> method, id |-> id, body |-> body, q |-> q, tag |-> tag]
NoRequest == Request("", 0, EmptyBody)

\* a complete, valid create body without minStockAlert
FullBody ==
  Body(Str(" Mango "), Str("VapeX"), Str("Pods"), Num(20), Num(100), Num(600),
       Undefined, Undefined, Undefined)

\* the values a request may carry in each field, valid and invalid
StockVals == {Undefined, Null, Num(0 - 1), Num(20), Frac(2), Str("abc")}
RawPriceVals == {Undefined, Num(0 - 1), Num(100), Num(600)}
SellingPriceVals == {Undefined, Num(100), Num(600), Infinity}
PriceVals == {Undefined, Num(100), Num(600)}
MinStockAlertVals == {Undefined, Num(0 - 1), Num(5), Str("abc")}
IdVals == {Undefined, Num(99)}

\* the bodies that differ from base in the numeric fields, one field at a time,
\* and in both price fields at once
Variations(base) ==
     {[base EXCEPT !.stock = x] : x \in StockVals}
  \cup {[base EXCEPT !.rawPrice = x] : x \in RawPriceVals}
  \cup {[base EXCEPT !.sellingPrice = x] : x \in SellingPriceVals}
  \cup {[base EXCEPT !.sellingPrice = Undefined, !.price = x] : x \in PriceVals}
  \cup {[base EXCEPT !.sellingPrice = Num(100), !.price = Num(600)]}
  \cup {[base EXCEPT !.rawPrice = Num(600), !.sellingPrice = Num(100)]}
  \cup {[base EXCEPT !.rawPrice = Undefined, !.sellingPrice = Undefined]}
  \cup {[base EXCEPT !.minStockAlert = x] : x \in MinStockAlertVals}
  \cup {[base EXCEPT !.id = x] : x \in IdVals}

CreateBodies == Variations(FullBody)
UpdateBodies == Variations(EmptyBody) \cup {FullBody}

\* the ids PUT and DELETE requests address: the last seeded item, the first
\* created one, and one no item has
PutIds == {5, 9}
DeleteIds == {5, 6, 9}

Requests ==
       {Request("POST", 0, b) : b \in CreateBodies}
  \cup {Request("PUT", id, b) : id \in PutIds, b \in UpdateBodies}
  \cup {Request("DELETE", id, EmptyBody) : id \in DeleteIds}

\* an API caller sends a request once the one before it has been answered
Send ==
  /\ net = {}
  /\ res = NoResponse
  /\ \E m \in Requests :
       /\ m.method = "POST" => Len(inventory) < MaxItems
       /\ net' = {m}
  /\ UNCHANGED <<build, inventory, req, res, issued, inbox>>
  /\ UNCHANGED client

\* the caller reads the response
Receive ==
  /\ res # NoResponse
  /\ res' = NoResponse
  /\ req' = NoRequest
  /\ UNCHANGED <<build, inventory, net, issued, inbox>>
  /\ UNCHANGED client

\* the server started, the page not opened
Init ==
  /\ build \in Builds
  /\ inventory = Seed
  /\ net = {}
  /\ req = NoRequest
  /\ res = NoResponse
  /\ issued = Ids(Seed)
  /\ inbox = {}
  /\ items = <<>>
  /\ search = ""
  /\ salesLog = <<>>
  /\ ui = [form |-> [name |-> "", brand |-> "", category |-> "", stock |-> "",
                     rawPrice |-> "", sellingPrice |-> "", minStockAlert |-> ""],
           editingId |-> 0, variantEntries |-> <<[name |-> "", stock |-> ""]>>,
           stockForm |-> [itemId |-> "", quantity |-> ""],
           saleForm |-> [itemId |-> "", quantity |-> ""], open |-> {}, error |-> ""]
  /\ tasks = {}

Next == Send \/ ServePost \/ ServePut \/ ServeDelete \/ Receive

Spec == Init /\ [][Next]_vars

\* the store alone: creates and deletes of any item, down to the empty store
StoreRequests ==
       {Request("POST", 0, b) : b \in {FullBody, [FullBody EXCEPT !.rawPrice = Undefined]}}
  \cup {Request("DELETE", id, EmptyBody) : id \in 1..(MaxItems + 1)}

SendStore ==
  /\ net = {}
  /\ res = NoResponse
  /\ \E m \in StoreRequests :
       /\ m.method = "POST" => Len(inventory) < MaxItems
       /\ net' = {m}
  /\ UNCHANGED <<build, inventory, req, res, issued, inbox>>
  /\ UNCHANGED client

NextStore == SendStore \/ ServePost \/ ServeDelete \/ Receive

SpecStore == Init /\ [][NextStore]_vars

\* the fields of a body one at a time: creates and updates that differ from
\* a full body, or from an empty one, in name, brand or category
TextVals == {Undefined, Null, Str(""), Str("  "), Str(" Kiwi ")}
TextVariations(base) ==
       {[base EXCEPT !.name = x] : x \in TextVals}
  \cup {[base EXCEPT !.brand = x] : x \in TextVals}
  \cup {[base EXCEPT !.category = x] : x \in TextVals}

FieldRequests ==
       {Request("POST", 0, b) : b \in TextVariations(FullBody)}
  \cup {Request("PUT", id, b) : id \in PutIds, b \in TextVariations(EmptyBody)}

SendFields ==
  /\ net = {}
  /\ res = NoResponse
  /\ \E m \in FieldRequests :
       /\ m.method = "POST" => Len(inventory) < MaxItems
       /\ net' = {m}
  /\ UNCHANGED <<build, inventory, req, res, issued, inbox>>
  /\ UNCHANGED client

NextFields == SendFields \/ ServePost \/ ServePut \/ Receive

SpecFields == Init /\ [][NextFields]_vars

\* creates and updates that leave fields out, give the selling price under
\* both of its names, or give a number as text
DefaultCreateBodies ==
  { FullBody,
    [FullBody EXCEPT !.stock = Undefined],
    [FullBody EXCEPT !.rawPrice = Undefined],
    [FullBody EXCEPT !.sellingPrice = Num(300), !.price = Num(600)],
    [FullBody EXCEPT !.sellingPrice = Undefined, !.price = Num(300)],
    [FullBody EXCEPT !.minStockAlert = Num(5)],
    [FullBody EXCEPT !.stock = Str("7")] }
DefaultUpdateBodies ==
  { EmptyBody,
    [EmptyBody EXCEPT !.stock = Str("7")],
    [EmptyBody EXCEPT !.minStockAlert = Num(5)],
    [EmptyBody EXCEPT !.sellingPrice = Num(400), !.price = Num(600)],
    [EmptyBody EXCEPT !.price = Num(450)],
    [EmptyBody EXCEPT !.name = Str(" Kiwi ")] }
DefaultRequests ==
       {Request("POST", 0, b) : b \in DefaultCreateBodies}
  \cup {Request("PUT", 5, b) : b \in DefaultUpdateBodies}

SendDefaults ==
  /\ net = {}
  /\ res = NoResponse
  /\ \E m \in DefaultRequests :
       /\ m.method = "POST" => Len(inventory) < MaxItems
       /\ net' = {m}
  /\ UNCHANGED <<build, inventory, req, res, issued, inbox>>
  /\ UNCHANGED client

NextDefaults == SendDefaults \/ ServePost \/ ServePut \/ Receive

SpecDefaults == Init /\ [][NextDefaults]_vars

\* searches over stores that creates, updates and deletes have changed
SearchQueries == {"", "pod", "VAPE", " pods", "zz"}
SearchRequests ==
       {Fetch(0, "GET", 0, EmptyBody, q) : q \in SearchQueries}
  \cup {Request("POST", 0, FullBody)}
  \cup {Request("PUT", 5, [EmptyBody EXCEPT !.sellingPrice = Num(600)])}
  \cup {Request("DELETE", id, EmptyBody) : id \in {2, 4}}

SendSearch ==
  /\ net = {}
  /\ res = NoResponse
  /\ \E m \in SearchRequests :
       /\ m.method = "POST" => Len(inventory) < MaxItems
       /\ net' = {m}
  /\ UNCHANGED <<build, inventory, req, res, issued, inbox>>
  /\ UNCHANGED client

NextSearch ==
  SendSearch \/ ServeGet \/ ServePost \/ ServePut \/ ServeDelete \/ Receive

SpecSearch == Init /\ [][NextSearch]_vars


\* ------------------------------------------------------------ the client
\* JSON.stringify writes NaN and Infinity as null and leaves undefined out
Json(x) == IF x.k \in {"NaN", "Infinity"} THEN Null ELSE x
\* response.json() of an item the server sent
ClientItem(r) == [f \in DOMAIN r |-> IF f = "id" THEN r.id ELSE Json(r[f])]
NoClientItem == ClientItem(buildItemResponse(NoItem))

rawPriceOf(item) == toNumber(Coalesce(item.rawPrice, Num(0)))
sellingPriceOf(item) ==
  toNumber(Coalesce(item.sellingPrice, Coalesce(item.price, Num(0))))
minStockAlertOf(item) == toNumber(Coalesce(item.minStockAlert, Num(10)))

\* a + b and a * b on numbers
Plus(a, b) ==
  IF a.k = "NaN" \/ b.k = "NaN" THEN NaN
  ELSE IF a.k = "Infinity" \/ b.k = "Infinity" THEN Infinity
  ELSE Fixed(a.v + b.v)
Times(a, b) ==
  IF a.k = "NaN" \/ b.k = "NaN" THEN NaN
  ELSE IF a.k = "Infinity" \/ b.k = "Infinity" THEN Infinity
  ELSE Fixed((a.v * b.v) \div (1 + 1))

\* response.ok
Ok(r) == r.status >= 200 /\ r.status <= 299
\* what a handler sees when fetch rejects
TransportFailure == [NoResponse EXCEPT !.error = "Failed to fetch"]

FormState(name, brand, category, stock, rawPrice, sellingPrice, minStockAlert) ==
  [name |-> name, brand |-> brand, category |-> category, stock |-> stock,
   rawPrice |-> rawPrice, sellingPrice |-> sellingPrice, minStockAlert |-> minStockAlert]
initialFormState == FormState("", "", "", "", "", "", "")
Entry(name, stock) == [name |-> name, stock |-> stock]
EmptyEntries == <<Entry("", "")>>
EmptyPick == [itemId |-> "", quantity |-> ""]

\* the state the forms and modals start in
InitialUi ==
  [form |-> initialFormState, editingId |-> 0, variantEntries |-> EmptyEntries,
   stockForm |-> EmptyPick, saleForm |-> EmptyPick, open |-> {}, error |-> ""]

\* items.find((item) => String(item.id) === itemId), NoClientItem for none
FindItem(list, itemId) ==
  IF \E i \in 1..Len(list) : ToString(list[i].id) = itemId
  THEN list[CHOOSE i \in 1..Len(list) :
              /\ ToString(list[i].id) = itemId
              /\ \A j \in 1..(i - 1) : ToString(list[j].id) # itemId]
  ELSE NoClientItem

\* a running handler: what it captured when it was called, and the fetch it
\* awaits (pc)
Task(tag, kind, pc, item, quantity, query, editing, payload, entries, created) ==
  [tag |-> tag, kind |-> kind, pc |-> pc, item |-> item, quantity |-> quantity,
   query |-> query, editing |-> editing, payload |-> payload, entries |-> entries,
   created |-> created]

LoadTask(tag, query) ==
  Task(tag, "load", "get", NoClientItem, Num(0), query, 0, EmptyBody, <<>>, 0)

\* a handler that has returned keeps its place in tasks, with nothing but its tag
Returned(t) == (tasks \ {t}) \cup {[LoadTask(t.tag, "") EXCEPT !.pc = "done"]}

FreeTags == (1..MaxTasks) \ {t.tag : t \in tasks}
NewTag == CHOOSE g \in FreeTags : \A h \in FreeTags : g <= h

\* loadItems(query), up to its fetch: the handler t goes on as the load
loadItems(t, query) ==
  /\ tasks' = (tasks \ {t}) \cup {[t EXCEPT !.pc = "get", !.query = query]}
  /\ net' = net \cup {Fetch(t.tag, "GET", 0, EmptyBody, query)}

\* onSearchSubmit, the search box filled in first
SearchSubmit(text) ==
  /\ FreeTags # {}
  /\ search' = text
  /\ ui' = [ui EXCEPT !.error = ""]
  /\ tasks' = tasks \cup {LoadTask(NewTag, text)}
  /\ net' = net \cup {Fetch(NewTag, "GET", 0, EmptyBody, text)}
  /\ UNCHANGED <<build, inventory, req, res, issued, inbox, items, salesLog>>

\* loadItems after its fetch: setItems(data), or setError
ResumeLoad ==
  \E msg \in inbox : \E t \in tasks :
    /\ t.tag = msg.tag /\ t.pc = "get"
    /\ inbox' = inbox \ {msg}
    /\ tasks' = Returned(t)
    /\ IF Ok(msg.r)
       THEN /\ items' = [i \in 1..Len(msg.r.items) |-> ClientItem(msg.r.items[i])]
            /\ UNCHANGED ui
       ELSE /\ ui' = [ui EXCEPT !.error =
                        IF msg.r.status = 0 THEN msg.r.error
                        ELSE "Failed to fetch inventory data."]
            /\ UNCHANGED items
    /\ UNCHANGED <<build, inventory, net, req, res, issued, search, salesLog>>

\* the body onAddStockSubmit and onAddSaleSubmit send, as JSON
PickPayload(item, stock) ==
  Body(item.name, item.brand, item.category, Json(stock), Json(rawPriceOf(item)),
       Json(sellingPriceOf(item)), Undefined, Json(minStockAlertOf(item)), Undefined)

\* the quantity sent as the new stock
SubmitStockQuantityOnly(itemId, quantityText) ==
  LET selectedItem == FindItem(items, itemId)
      quantity == StringToNumber(quantityText)
      payload == PickPayload(selectedItem, quantity)
  IN  /\ FreeTags # {}
      /\ ui' = [ui EXCEPT !.stockForm = [itemId |-> itemId, quantity |-> quantityText],
                          !.open = @ \cup {"stock"}]
      /\ IF \/ selectedItem = NoClientItem
            \/ ~IsFinite(quantity) \/ ~Lt(Num(0), quantity)
         THEN UNCHANGED <<tasks, net>>
         ELSE /\ Lt(payload.stock, Num(MaxStock + 1))
              /\ tasks' = tasks \cup
                   {Task(NewTag, "stock", "put", selectedItem, quantity, search, 0,
                         payload, <<>>, 0)}
              /\ net' = net \cup {Fetch(NewTag, "PUT", selectedItem.id, payload, "")}
      /\ UNCHANGED <<build, inventory, req, res, issued, inbox, items, search, salesLog>>

\* onAddStockSubmit, the modal filled in first, up to its fetch
SubmitStock(itemId, quantityText) ==
  LET selectedItem == FindItem(items, itemId)
      quantity == StringToNumber(quantityText)
      payload == PickPayload(selectedItem, Plus(toNumber(selectedItem.stock), quantity))
  IN  /\ FreeTags # {}
      /\ ui' = [ui EXCEPT !.stockForm = [itemId |-> itemId, quantity |-> quantityText],
                          !.open = @ \cup {"stock"}]
      /\ IF \/ selectedItem = NoClientItem
            \/ ~IsFinite(quantity) \/ ~Lt(Num(0), quantity)
         THEN UNCHANGED <<tasks, net>>
         ELSE /\ Lt(payload.stock, Num(MaxStock + 1))
              /\ tasks' = tasks \cup
                   {Task(NewTag, "stock", "put", selectedItem, quantity, search, 0,
                         payload, <<>>, 0)}
              /\ net' = net \cup {Fetch(NewTag, "PUT", selectedItem.id, payload, "")}
      /\ UNCHANGED <<build, inventory, req, res, issued, inbox, items, search, salesLog>>

\* onAddStockSubmit after its fetch
ResumeStock ==
  \E msg \in inbox : \E t \in tasks :
    /\ t.tag = msg.tag /\ t.kind = "stock" /\ t.pc = "put"
    /\ inbox' = inbox \ {msg}
    /\ IF Ok(msg.r)
       THEN /\ ui' = [ui EXCEPT !.open = @ \ {"stock"}, !.stockForm = EmptyPick,
                                !.error = ""]
            /\ loadItems(t, t.query)
       ELSE /\ tasks' = Returned(t)
            /\ UNCHANGED <<ui, net>>
    /\ UNCHANGED <<build, inventory, req, res, issued, items, search, salesLog>>

\* the total left at the price of one unit
SaleRecordUnitPrice(item, quantity) ==
  [itemId |-> item.id, name |-> item.name, brand |-> item.brand,
   category |-> item.category, quantity |-> quantity,
   sellingPrice |-> sellingPriceOf(item),
   totalAmount |-> sellingPriceOf(item)]

SaleRecord(item, quantity) ==
  [itemId |-> item.id, name |-> item.name, brand |-> item.brand,
   category |-> item.category, quantity |-> quantity,
   sellingPrice |-> sellingPriceOf(item),
   totalAmount |-> Times(sellingPriceOf(item), quantity)]

\* the quantity not compared with the stock
SubmitSaleUnchecked(itemId, quantityText) ==
  LET selectedItem == FindItem(items, itemId)
      quantity == StringToNumber(quantityText)
      currentStock == toNumber(selectedItem.stock)
      payload == PickPayload(selectedItem, Minus(currentStock, quantity))
  IN  /\ FreeTags # {}
      /\ ui' = [ui EXCEPT !.saleForm = [itemId |-> itemId, quantity |-> quantityText],
                          !.open = @ \cup {"sale"}]
      /\ IF \/ selectedItem = NoClientItem
            \/ ~IsFinite(quantity) \/ ~Lt(Num(0), quantity)
         THEN UNCHANGED <<tasks, net>>
         ELSE /\ Len(salesLog) + Cardinality({t \in tasks : t.kind = "sale"}) < MaxSales
              /\ tasks' = tasks \cup
                   {Task(NewTag, "sale", "put", selectedItem, quantity, search, 0,
                         payload, <<>>, 0)}
              /\ net' = net \cup {Fetch(NewTag, "PUT", selectedItem.id, payload, "")}
      /\ UNCHANGED <<build, inventory, req, res, issued, inbox, items, search, salesLog>>

\* onAddSaleSubmit, the modal filled in first, up to its fetch
SubmitSale(itemId, quantityText) ==
  LET selectedItem == FindItem(items, itemId)
      quantity == StringToNumber(quantityText)
      currentStock == toNumber(selectedItem.stock)
      payload == PickPayload(selectedItem, Minus(currentStock, quantity))
  IN  /\ FreeTags # {}
      /\ ui' = [ui EXCEPT !.saleForm = [itemId |-> itemId, quantity |-> quantityText],
                          !.open = @ \cup {"sale"}]
      /\ IF \/ selectedItem = NoClientItem
            \/ ~IsFinite(quantity) \/ ~Lt(Num(0), quantity)
            \/ Lt(currentStock, quantity)
         THEN UNCHANGED <<tasks, net>>
         ELSE /\ Len(salesLog) + Cardinality({t \in tasks : t.kind = "sale"}) < MaxSales
              /\ tasks' = tasks \cup
                   {Task(NewTag, "sale", "put", selectedItem, quantity, search, 0,
                         payload, <<>>, 0)}
              /\ net' = net \cup {Fetch(NewTag, "PUT", selectedItem.id, payload, "")}
      /\ UNCHANGED <<build, inventory, req, res, issued, inbox, items, search, salesLog>>

\* onAddSaleSubmit after its fetch
ResumeSale ==
  \E msg \in inbox : \E t \in tasks :
    /\ t.tag = msg.tag /\ t.kind = "sale" /\ t.pc = "put"
    /\ inbox' = inbox \ {msg}
    /\ IF Ok(msg.r)
       THEN /\ salesLog' = <<SaleRecord(t.item, t.quantity)>> \o salesLog
            /\ ui' = [ui EXCEPT !.open = @ \ {"sale"}, !.saleForm = EmptyPick,
                                !.error = ""]
            /\ loadItems(t, t.query)
       ELSE /\ tasks' = Returned(t)
            /\ UNCHANGED <<ui, net, salesLog>>
    /\ UNCHANGED <<build, inventory, req, res, issued, items, search>>

\* String(x) of a number
NumberToString(x) ==
  CASE x.k = "number" ->
         LET a == IF x.v < 0 THEN 0 - x.v ELSE x.v
         IN  (IF x.v < 0 THEN "-" ELSE "") \o ToString(a \div (1 + 1))
               \o (IF a % (1 + 1) = 1 THEN ".5" ELSE "")
    [] x.k = "string" -> x.s
    [] OTHER -> x.k

\* onEdit(item): the form filled from the item
FormOf(item) ==
  FormState(item.name.s, item.brand.s, item.category.s, NumberToString(item.stock),
            NumberToString(rawPriceOf(item)), NumberToString(sellingPriceOf(item)),
            NumberToString(minStockAlertOf(item)))

\* onFormSubmit: payload
FormPayload(form) ==
  Body(Str(Trim(form.name)), Str(Trim(form.brand)), Str(Trim(form.category)),
       StringToNumber(form.stock), StringToNumber(form.rawPrice),
       StringToNumber(form.sellingPrice), Undefined,
       StringToNumber(form.minStockAlert), Undefined)

allowMultipleNames(form) ==
  toLowerCase(Trim(form.category)) \in {"pods", "battery", "batteries"}

\* onFormSubmit: multiEntries
multiEntries(form, entries) ==
  IF allowMultipleNames(form)
  THEN SelectSeq([i \in 1..Len(entries) |->
                    [name |-> Str(Trim(entries[i].name)),
                     stock |-> StringToNumber(entries[i].stock)]],
                 LAMBDA entry : entry.name.s # "")
  ELSE <<>>

InvalidAmount(x) == ~IsFinite(x) \/ Lt(x, Num(0))

\* onFormSubmit: the checks before the try block, "" when all of them pass
FormError(form, entries, isEditing) ==
  LET payload == FormPayload(form)
      multi == multiEntries(form, entries)
      many == allowMultipleNames(form)
      itemFieldLabel ==
        IF toLowerCase(payload.category.s) \in {"battery", "batteries"} THEN "color"
        ELSE "flavor"
  IN  IF payload.brand.s = "" \/ payload.category.s = ""
      THEN "Please provide brand, " \o itemFieldLabel \o ", and category."
      ELSE IF ~isEditing /\ many /\ Len(multi) = 0
      THEN "Please provide at least one " \o itemFieldLabel \o " with stock."
      ELSE IF ~isEditing /\ ~many /\ payload.name.s = ""
      THEN "Please provide " \o itemFieldLabel \o "."
      ELSE IF (~many \/ isEditing) /\ InvalidAmount(payload.stock)
      THEN "Stock must be a valid non-negative number."
      ELSE IF ~isEditing /\ many /\ \E i \in 1..Len(multi) : InvalidAmount(multi[i].stock)
      THEN "Each flavor/color stock must be a valid non-negative number."
      ELSE IF InvalidAmount(payload.rawPrice)
      THEN "Raw price must be a valid non-negative amount in PHP."
      ELSE IF InvalidAmount(payload.sellingPrice)
      THEN "Selling price must be a valid non-negative amount in PHP."
      ELSE IF Lt(payload.sellingPrice, payload.rawPrice)
      THEN "Selling price must be greater than or equal to raw price."
      ELSE IF InvalidAmount(payload.minStockAlert)
      THEN "Minimum stock alert must be a valid non-negative number."
      ELSE ""

\* onFormSubmit: entriesToCreate
entriesToCreate(form, entries) ==
  IF allowMultipleNames(form) THEN multiEntries(form, entries)
  ELSE <<[name |-> Str(Trim(form.name)), stock |-> StringToNumber(form.stock)]>>

\* JSON.stringify({ ...payload, name: entry.name, stock: entry.stock })
EntryBody(payload, entry) ==
  [payload EXCEPT !.name = entry.name, !.stock = Json(entry.stock)]

JsonBody(b) == [f \in DOMAIN b |-> Json(b[f])]

\* resetForm
resetForm(u) ==
  [u EXCEPT !.form = initialFormState, !.editingId = 0, !.variantEntries = EmptyEntries]

\* the POSTs the add handlers under way have still to get answered
RECURSIVE PendingCreates(_)
PendingCreates(T) ==
  IF T = {} THEN 0
  ELSE LET t == CHOOSE u \in T : TRUE
       IN  (IF t.pc = "post" THEN 1 + Len(t.entries) ELSE 0) + PendingCreates(T \ {t})

\* onFormSubmit in the add modal, the form filled in first, up to its first fetch
SubmitAdd(form, entries) ==
  LET error == FormError(form, entries, FALSE)
      todo == entriesToCreate(form, entries)
      payload == JsonBody(FormPayload(form))
  IN  /\ FreeTags # {}
      /\ ui' = [ui EXCEPT !.form = form, !.variantEntries = entries, !.editingId = 0,
                          !.open = @ \cup {"add"}, !.error = error]
      /\ IF error # ""
         THEN UNCHANGED <<tasks, net>>
         ELSE /\ Len(inventory) + PendingCreates(tasks) + Len(todo) <= MaxClientItems
              /\ tasks' = tasks \cup
                   {Task(NewTag, "form", "post", NoClientItem, Num(0), search, 0,
                         payload, Tail(todo), 0)}
              /\ net' = net \cup {Fetch(NewTag, "POST", 0, EntryBody(payload, Head(todo)), "")}
      /\ UNCHANGED <<build, inventory, req, res, issued, inbox, items, search, salesLog>>

\* onEdit(item) and onFormSubmit in the edit modal, the form changed in one
\* field first, up to its fetch
SubmitEdit(itemId, field, text) ==
  LET item == FindItem(items, itemId)
      form == [FormOf(item) EXCEPT ![field] = text]
      error == FormError(form, ui.variantEntries, TRUE)
      payload == JsonBody(FormPayload(form))
  IN  /\ FreeTags # {}
      /\ item # NoClientItem
      /\ ui' = [ui EXCEPT !.form = form, !.editingId = item.id,
                          !.open = @ \cup {"edit"}, !.error = error]
      /\ IF error # ""
         THEN UNCHANGED <<tasks, net>>
         ELSE /\ tasks' = tasks \cup
                   {Task(NewTag, "form", "put", item, Num(0), search, item.id,
                         payload, <<>>, 0)}
              /\ net' = net \cup {Fetch(NewTag, "PUT", item.id, payload, "")}
      /\ UNCHANGED <<build, inventory, req, res, issued, inbox, items, search, salesLog>>

\* what the catch block shows for a response
FailureText(r, fallback) ==
  IF r.error # "" THEN r.error ELSE fallback

\* the form cleared when the save fails
ResumeFormResetting ==
  \E msg \in inbox : \E t \in tasks :
    /\ t.tag = msg.tag /\ t.kind = "form" /\ t.pc \in {"put", "post"}
    /\ inbox' = inbox \ {msg}
    /\ IF ~Ok(msg.r)
       THEN /\ ui' = [resetForm(ui) EXCEPT
                        !.error = FailureText(msg.r, "Failed to save item.")]
            /\ tasks' = Returned(t)
            /\ UNCHANGED net
       ELSE IF t.pc = "post" /\ Len(t.entries) > 0
       THEN /\ tasks' = (tasks \ {t}) \cup
                          {[t EXCEPT !.entries = Tail(@), !.created = @ + 1]}
            /\ net' = net \cup
                        {Fetch(t.tag, "POST", 0, EntryBody(t.payload, Head(t.entries)), "")}
            /\ UNCHANGED ui
       ELSE /\ ui' = [resetForm(ui) EXCEPT
                        !.open = @ \ {IF t.pc = "put" THEN "edit" ELSE "add"},
                        !.error = ""]
            /\ loadItems(t, t.query)
    /\ UNCHANGED <<build, inventory, req, res, issued, items, search, salesLog>>

\* onFormSubmit after a fetch
ResumeForm ==
  \E msg \in inbox : \E t \in tasks :
    /\ t.tag = msg.tag /\ t.kind = "form" /\ t.pc \in {"put", "post"}
    /\ inbox' = inbox \ {msg}
    /\ IF ~Ok(msg.r)
       THEN /\ ui' = [ui EXCEPT !.error = FailureText(msg.r, "Failed to save item.")]
            /\ tasks' = Returned(t)
            /\ UNCHANGED net
       ELSE IF t.pc = "post" /\ Len(t.entries) > 0
       THEN /\ tasks' = (tasks \ {t}) \cup
                          {[t EXCEPT !.entries = Tail(@), !.created = @ + 1]}
            /\ net' = net \cup
                        {Fetch(t.tag, "POST", 0, EntryBody(t.payload, Head(t.entries)), "")}
            /\ UNCHANGED ui
       ELSE /\ ui' = [resetForm(ui) EXCEPT
                        !.open = @ \ {IF t.pc = "put" THEN "edit" ELSE "add"},
                        !.error = ""]
            /\ loadItems(t, t.query)
    /\ UNCHANGED <<build, inventory, req, res, issued, items, search, salesLog>>

\* onDelete, confirmed, up to its fetch
ClickDelete(itemId) ==
  LET item == FindItem(items, itemId)
  IN  /\ FreeTags # {}
      /\ item # NoClientItem
      /\ ui' = [ui EXCEPT !.error = ""]
      /\ tasks' = tasks \cup
           {Task(NewTag, "delete", "delete", item, Num(0), search, ui.editingId,
                 EmptyBody, <<>>, 0)}
      /\ net' = net \cup {Fetch(NewTag, "DELETE", item.id, EmptyBody, "")}
      /\ UNCHANGED <<build, inventory, req, res, issued, inbox, items, search, salesLog>>

\* onDelete after its fetch
ResumeDelete ==
  \E msg \in inbox : \E t \in tasks :
    /\ t.tag = msg.tag /\ t.kind = "delete" /\ t.pc = "delete"
    /\ inbox' = inbox \ {msg}
    /\ IF ~Ok(msg.r)
       THEN /\ ui' = [ui EXCEPT !.error = FailureText(msg.r, "Failed to delete item.")]
            /\ tasks' = Returned(t)
            /\ UNCHANGED net
       ELSE /\ ui' = [(IF t.editing = t.item.id THEN resetForm(ui) ELSE ui)
                        EXCEPT !.error = ""]
            /\ loadItems(t, t.query)
    /\ UNCHANGED <<build, inventory, req, res, issued, items, search, salesLog>>

\* fetch rejects: the request never reaches the server
Lose ==
  \E m \in net :
    /\ m.tag # 0
    /\ net' = net \ {m}
    /\ inbox' = inbox \cup {[tag |-> m.tag, r |-> TransportFailure]}
    /\ UNCHANGED <<build, inventory, req, res, issued>>
    /\ UNCHANGED client

\* -------------------------------------------- the client with the server
\* what the user types and picks
PickIds == {"5"}
StockTexts == {"8"}
SaleTexts == {"12", "20"}
AddForms ==
  { [form |-> FormState("", "VapeX", "Pods", "", "100", "150", ""),
     entries |-> <<Entry("Red", "2"), Entry(" ", "9"), Entry("Blue", "")>>] }
EditChanges == {<<"stock", "20">>, <<"name", " ">>}
\* what the API caller sends while the client runs
DirectRequests ==
  {Request("PUT", 5, [EmptyBody EXCEPT !.stock = x]) : x \in {Num(0 - 1), Num(4)}}

SendDirect ==
  /\ net = {}
  /\ res = NoResponse
  /\ \E m \in DirectRequests : net' = {m}
  /\ UNCHANGED <<build, inventory, req, res, issued, inbox>>
  /\ UNCHANGED client

\* the server started and the page opened: useEffect has called loadItems()
InitClient ==
  /\ build \in Builds
  /\ inventory = Seed
  /\ net = {Fetch(1, "GET", 0, EmptyBody, "")}
  /\ req = NoRequest
  /\ res = NoResponse
  /\ issued = Ids(Seed)
  /\ inbox = {}
  /\ items = <<>>
  /\ search = ""
  /\ salesLog = <<>>
  /\ ui = InitialUi
  /\ tasks = {LoadTask(1, "")}

UserAddStock == \E id \in PickIds, text \in StockTexts : SubmitStock(id, text)
UserAddSale == \E id \in PickIds, text \in SaleTexts : SubmitSale(id, text)
UserAdd == \E a \in AddForms : SubmitAdd(a.form, a.entries)
UserEdit == \E id \in PickIds, c \in EditChanges : SubmitEdit(id, c[1], c[2])

NextClient ==
  \/ UserAddStock \/ UserAddSale \/ UserAdd \/ UserEdit
  \/ ResumeLoad \/ ResumeStock \/ ResumeSale \/ ResumeForm
  \/ ServeGet \/ ServePost \/ ServePut
  \/ SendDirect \/ Receive

SpecClient == InitClient /\ [][NextClient]_vars

\* record-sale submissions, with requests that fail: fetch rejects, or the
\* item was deleted meanwhile (404)
SendDelete ==
  /\ net = {}
  /\ res = NoResponse
  /\ net' = {Request("DELETE", 5, EmptyBody)}
  /\ UNCHANGED <<build, inventory, req, res, issued, inbox>>
  /\ UNCHANGED client

NextSales ==
  \/ UserAddSale \/ ResumeLoad \/ ResumeSale
  \/ ServeGet \/ ServePut \/ ServeDelete
  \/ Lose \/ SendDirect \/ SendDelete \/ Receive

SpecSales == InitClient /\ [][NextSales]_vars

\* the four submit handlers, with requests that fail: fetch rejects, or the
\* server rejects the body (400)
FailingEdits == {<<"name", " ">>}
UserEditFailing == \E id \in PickIds, c \in FailingEdits : SubmitEdit(id, c[1], c[2])

NextSubmit ==
  \/ UserAddStock \/ UserAddSale \/ UserAdd \/ UserEditFailing
  \/ ResumeLoad \/ ResumeStock \/ ResumeSale \/ ResumeForm
  \/ ServeGet \/ ServePost \/ ServePut
  \/ Lose

SpecSubmit == InitClient /\ [][NextSubmit]_vars

\* ------------------------------------------------ the dashboard's figures
\* values.reduce((sum, value) => sum + value, sum), from the left
RECURSIVE reduceSum(_, _)
reduceSum(values, sum) ==
  IF values = <<>> THEN sum
  ELSE reduceSum(Tail(values), Plus(sum, Head(values)))

\* a <= b on numbers (false when either side is NaN)
Le(a, b) ==
  CASE a.k = "NaN" \/ b.k = "NaN" -> FALSE
    [] b.k = "Infinity" -> TRUE
    [] a.k = "Infinity" -> FALSE
    [] OTHER -> a.v <= b.v

totalStock(list) ==
  reduceSum([i \in 1..Len(list) |-> toNumber(list[i].stock)], Num(0))
inventoryValue(list) ==
  reduceSum([i \in 1..Len(list) |->
               Times(toNumber(list[i].stock), sellingPriceOf(list[i]))], Num(0))
capitalInvested(list) ==
  reduceSum([i \in 1..Len(list) |->
               Times(rawPriceOf(list[i]), toNumber(list[i].stock))], Num(0))
outOfStockCount(list) ==
  Len(SelectSeq(list, LAMBDA item : toNumber(item.stock) = Num(0)))
\* an item at its alert level left out
lowStockCountStrict(list) ==
  Len(SelectSeq(list, LAMBDA item :
        /\ Lt(Num(0), toNumber(item.stock))
        /\ Lt(toNumber(item.stock), minStockAlertOf(item))))

lowStockCount(list) ==
  Len(SelectSeq(list, LAMBDA item :
        /\ Lt(Num(0), toNumber(item.stock))
        /\ Le(toNumber(item.stock), minStockAlertOf(item))))

\* the page with an API caller that empties a stock or brings it to the
\* alert level, while the user searches and adds
DashQueries == {"pod"}
DashRequests ==
  {Request("PUT", 5, [EmptyBody EXCEPT !.stock = x]) : x \in {Num(0), Num(6)}}

SendDash ==
  /\ net = {}
  /\ res = NoResponse
  /\ \E m \in DashRequests : net' = {m}
  /\ UNCHANGED <<build, inventory, req, res, issued, inbox>>
  /\ UNCHANGED client

UserSearch == \E q \in DashQueries : SearchSubmit(q)

NextDash ==
  \/ UserSearch \/ UserAdd \/ ResumeLoad \/ ResumeForm
  \/ ServeGet \/ ServePost \/ ServePut
  \/ SendDash \/ Receive

SpecDash == InitClient /\ [][NextDash]_vars

chartPalette == <<"#561C24", "#6D2932", "#8B3A44", "#a05060", "#C7B7A3", "#3a1a20">>

\* list.sort((a, b) => key(b) - key(a)), as the order of the indices: the sort
\* is stable, so index i goes before the first index with a smaller key
RECURSIVE insertDescending(_, _, _)
insertDescending(order, i, key) ==
  IF order = <<>> THEN <<i>>
  ELSE IF key[Head(order)] < key[i] THEN <<i>> \o order
  ELSE <<Head(order)>> \o insertDescending(Tail(order), i, key)

RECURSIVE sortDescending(_, _)
sortDescending(n, key) ==
  IF n = 0 THEN <<>>
  ELSE insertDescending(sortDescending(n - 1, key), n, key)

\* categorySegments: grouped, the entries in the order the keys were added
\* (no category of the model is an integer index, which would come first)
RECURSIVE groupStock(_, _)
groupStock(list, accumulator) ==
  IF list = <<>> THEN accumulator
  ELSE LET item == Head(list)
           category == IF Falsy(item.category) THEN "Uncategorized" ELSE item.category.s
           stock == toNumber(item.stock)
           Old(v) == IF Falsy(v) THEN Num(0) ELSE v
       IN  IF \E j \in 1..Len(accumulator) : accumulator[j].label = category
           THEN groupStock(Tail(list),
                  [j \in 1..Len(accumulator) |->
                     IF accumulator[j].label = category
                     THEN [accumulator[j] EXCEPT !.value = Plus(Old(@), stock)]
                     ELSE accumulator[j]])
           ELSE groupStock(Tail(list),
                  Append(accumulator, [label |-> category, value |-> Plus(Num(0), stock)]))

\* the entries left in the order the categories were met
categorySegmentsUnsorted(list) ==
  LET grouped == groupStock(list, <<>>)
      order == [j \in 1..Len(grouped) |-> j]
  IN  [index \in 1..Len(grouped) |->
         [label |-> grouped[order[index]].label,
          value |-> grouped[order[index]].value,
          color |-> chartPalette[((index - 1) % Len(chartPalette)) + 1]]]

categorySegments(list) ==
  LET grouped == groupStock(list, <<>>)
      order == sortDescending(Len(grouped), [j \in 1..Len(grouped) |-> grouped[j].value.v])
  IN  [index \in 1..Len(grouped) |->
         [label |-> grouped[order[index]].label,
          value |-> grouped[order[index]].value,
          color |-> chartPalette[((index - 1) % Len(chartPalette)) + 1]]]

\* { ...item, value: Number(item.stock) * sellingPriceOf(item) }
WithValue(item) ==
  [f \in DOMAIN item \cup {"value"} |->
     IF f = "value" THEN Times(toNumber(item.stock), sellingPriceOf(item)) ELSE item[f]]

\* the ranking left in the order of the list
topProductsByValueUnsorted(list) ==
  LET valued == [i \in 1..Len(list) |-> WithValue(list[i])]
      order == [i \in 1..Len(list) |-> i]
      sorted == [k \in 1..Len(valued) |-> valued[order[k]]]
  IN  SubSeq(sorted, 1, IF Len(sorted) < 6 THEN Len(sorted) ELSE 6)

\* topProductsByValue: [...items].map(...).sort((a, b) => b.value - a.value).slice(0, 6)
topProductsByValue(list) ==
  LET valued == [i \in 1..Len(list) |-> WithValue(list[i])]
      order == sortDescending(Len(valued), [i \in 1..Len(valued) |-> valued[i].value.v])
      sorted == [k \in 1..Len(valued) |-> valued[order[k]]]
  IN  SubSeq(sorted, 1, IF Len(sorted) < 6 THEN Len(sorted) ELSE 6)

\* the items array once topProductsByValue has run: the sort works on the
\* copy [...items]
itemsAfterTopProducts(list) == list

\* the page opened and its first load done: useEffect's loadItems() has put
\* the server's answer into items, and no handler is running
InitLoaded ==
  /\ build \in Builds
  /\ inventory = Seed
  /\ net = {}
  /\ req = NoRequest
  /\ res = NoResponse
  /\ issued = Ids(Seed)
  /\ inbox = {}
  /\ items = [i \in 1..Len(Seed) |-> ClientItem(buildItemResponse(Seed[i]))]
  /\ search = ""
  /\ salesLog = <<>>
  /\ ui = InitialUi
  /\ tasks = {}

\* add-stock submitted twice in a row, the client the only writer
RaceStockTexts == {"3", "4"}
UserAddStockAgain == \E id \in PickIds, text \in RaceStockTexts : SubmitStock(id, text)

NextStockRace ==
  UserAddStockAgain \/ ResumeStock \/ ResumeLoad \/ ServePut \/ ServeGet

SpecStockRace == InitLoaded /\ [][NextStockRace]_vars

\* record-sale submitted twice in a row, the client the only writer
RaceSaleTexts == {"5", "7"}
UserAddSaleAgain == \E id \in PickIds, text \in RaceSaleTexts : SubmitSale(id, text)

NextSaleRace ==
  UserAddSaleAgain \/ ResumeSale \/ ResumeLoad \/ ServePut \/ ServeGet

SpecSaleRace == InitLoaded /\ [][NextSaleRace]_vars

\* ------------------------------------------------------ the sales figures
totalSalesRevenue(log) ==
  reduceSum([k \in 1..Len(log) |-> log[k].totalAmount], Num(0))
totalUnitsSold(log) ==
  reduceSum([k \in 1..Len(log) |-> log[k].quantity], Num(0))

\* salesRevenueByProduct: grouped, keyed by sale.name, the entries in the
\* order the keys were added
RECURSIVE groupSales(_, _)
groupSales(log, acc) ==
  IF log = <<>> THEN acc
  ELSE LET sale == Head(log)
           key == sale.name.s
       IN  IF \E j \in 1..Len(acc) : acc[j].key = key
           THEN groupSales(Tail(log),
                  [j \in 1..Len(acc) |->
                     IF acc[j].key = key
                     THEN [acc[j] EXCEPT !.revenue = Plus(@, sale.totalAmount),
                                         !.units = Plus(@, sale.quantity)]
                     ELSE acc[j]])
           ELSE groupSales(Tail(log),
                  Append(acc, [key |-> key, name |-> sale.name,
                               revenue |-> Plus(Num(0), sale.totalAmount),
                               units |-> Plus(Num(0), sale.quantity)]))

\* Object.values(grouped).sort((a, b) => b.revenue - a.revenue).slice(0, 7)
salesRevenueByProduct(log) ==
  LET grouped == groupSales(log, <<>>)
      order == sortDescending(Len(grouped), [j \in 1..Len(grouped) |-> grouped[j].revenue.v])
      sorted == [k \in 1..Len(grouped) |->
                   [name |-> grouped[order[k]].name, revenue |-> grouped[order[k]].revenue,
                    units |-> grouped[order[k]].units]]
  IN  SubSeq(sorted, 1, IF Len(sorted) < 7 THEN Len(sorted) ELSE 7)

\* sales of two items while an API caller gives item 4 the name of item 5
SellIds == {"4", "5"}
SellTexts == {"2"}
UserSell == \E id \in SellIds, text \in SellTexts : SubmitSale(id, text)
SendRename ==
  /\ net = {}
  /\ res = NoResponse
  /\ net' = {Request("PUT", 4, [EmptyBody EXCEPT !.name = Seed[5].name])}
  /\ UNCHANGED <<build, inventory, req, res, issued, inbox>>
  /\ UNCHANGED client

NextStats ==
  \/ UserSell \/ ResumeSale \/ ResumeLoad
  \/ ServePut \/ ServeGet \/ SendRename \/ Receive

SpecStats == InitLoaded /\ [][NextStats]_vars

\* a search, an add, an edit or an add-stock on the page while its loads are
\* under way, the client the only writer
NextLoads ==
  \/ UserSearch \/ UserAdd \/ UserEdit \/ UserAddStock
  \/ ResumeLoad \/ ResumeForm \/ ResumeStock
  \/ ServeGet \/ ServePost \/ ServePut

SpecLoads == InitClient /\ [][NextLoads]_vars

\* updates with valid and invalid bodies, addressed to an item, to an id no
\* item has, and to an item that has been deleted
MissingBodies ==
  { [EmptyBody EXCEPT !.stock = Num(20)],
    [EmptyBody EXCEPT !.stock = Num(0 - 1)],
    [EmptyBody EXCEPT !.rawPrice = Num(600), !.sellingPrice = Num(100)],
    [EmptyBody EXCEPT !.name = Str("  ")],
    [EmptyBody EXCEPT !.name = Null],
    [EmptyBody EXCEPT !.minStockAlert = Str("x")],
    FullBody }
MissingRequests ==
       {Request("PUT", id, b) : id \in {4, 5, 9}, b \in MissingBodies}
  \cup {Request("DELETE", 5, EmptyBody)}

SendMissing ==
  /\ net = {}
  /\ res = NoResponse
  /\ \E m \in MissingRequests : net' = {m}
  /\ UNCHANGED <<build, inventory, req, res, issued, inbox>>
  /\ UNCHANGED client

NextMissing == SendMissing \/ ServePut \/ ServeDelete \/ Receive

SpecMissing == Init /\ [][NextMissing]_vars

\* ------------------------------------------------------ the donut's angles
\* buildChartGradient divides: its numbers are IEEE 754 doubles. A double
\* above 0 is kept as the 53 bits of its significand, the first of them 1,
\* and the exponent e with value 0.b1 b2 ... b53 x 2^e; results are rounded
\* to the nearest double, ties to the even significand.
Precision == 53
DoubleZero == [bits |-> <<>>, exp |-> 0]
\* 360 = 0.101101 x 2^9
Double360 == [bits |-> [i \in 1..Precision |-> IF i \in {1, 3, 4, 6} THEN 1 ELSE 0], exp |-> 9]

\* the significand plus one unit in its last place
Successor(bits, exp) ==
  IF \A i \in 1..Len(bits) : bits[i] = 1
  THEN [bits |-> [i \in 1..Len(bits) |-> IF i = 1 THEN 1 ELSE 0], exp |-> exp + 1]
  ELSE LET p == CHOOSE i \in 1..Len(bits) :
                  bits[i] = 0 /\ \A j \in (i + 1)..Len(bits) : bits[j] = 1
       IN  [bits |-> [i \in 1..Len(bits) |->
                        IF i < p THEN bits[i] ELSE IF i = p THEN 1 ELSE 0],
            exp |-> exp]

\* an exact result 0.bits x 2^exp (bits[1] = 1, any length) rounded to a double
RoundToDouble(bits, exp) ==
  IF Len(bits) <= Precision
  THEN [bits |-> [i \in 1..Precision |-> IF i <= Len(bits) THEN bits[i] ELSE 0], exp |-> exp]
  ELSE IF /\ bits[Precision + 1] = 1
          /\ \/ bits[Precision] = 1
             \/ \E i \in (Precision + 2)..Len(bits) : bits[i] = 1
  THEN Successor(SubSeq(bits, 1, Precision), exp)
  ELSE [bits |-> SubSeq(bits, 1, Precision), exp |-> exp]

\* 2^k modulo d
RECURSIVE PowerOfTwoMod(_, _)
PowerOfTwoMod(k, d) ==
  IF k = 0 THEN 1 % d
  ELSE IF k % 2 = 0 THEN (PowerOfTwoMod(k \div 2, d) * PowerOfTwoMod(k \div 2, d)) % d
  ELSE (2 * PowerOfTwoMod(k - 1, d)) % d

\* the first k bits of r / d after the binary point (r < d), and one more bit
\* that is 1 when the division has a remainder left
QuotientBits(r, d, k) ==
  [i \in 1..(k + 1) |->
     IF i <= k
     THEN (IF 2 * ((r * PowerOfTwoMod(i - 1, d)) % d) >= d THEN 1 ELSE 0)
     ELSE (IF (r * PowerOfTwoMod(k, d)) % d = 0 THEN 0 ELSE 1)]

\* n / d for integers 0 <= n and 0 < d with n / d below 4
DoubleOfRatio(n, d) ==
  IF n = 0 THEN DoubleZero
  ELSE LET e == CHOOSE x \in (0 - 12)..2 :
                  /\ n * 2^12 < d * 2^(x + 12)
                  /\ d * 2^(x + 12) <= n * 2^13
       IN  RoundToDouble(
             QuotientBits(IF e < 0 THEN n * 2^(0 - e) ELSE n,
                          IF e > 0 THEN d * 2^e ELSE d, Precision + 2), e)

\* the carry into digit i of a + b, two digit strings of length n: some digit
\* further right produces a carry that every digit in between passes on
CarryInto(a, b, n, i) ==
  \E j \in (i + 1)..n :
    /\ a[j] = 1 /\ b[j] = 1
    /\ \A k \in (i + 1)..(j - 1) : a[k] + b[k] = 1

\* the digits of a + b
SumBits(a, b, n) ==
  (IF CarryInto(a, b, n, 0) THEN <<1>> ELSE <<>>)
    \o [i \in 1..n |-> (a[i] + b[i] + (IF CarryInto(a, b, n, i) THEN 1 ELSE 0)) % 2]

\* x * 360 = x * (2^8 + 2^6 + 2^5 + 2^3): the significand shifted four times
\* and added up, in 62 digits
DoubleTimes360(x) ==
  IF x = DoubleZero THEN DoubleZero
  ELSE LET n == Precision + 9
           Shifted(k) == [i \in 1..n |->
                            IF i - (9 - k) \in 1..Precision THEN x.bits[i - (9 - k)] ELSE 0]
           product == SumBits(SumBits(Shifted(8), Shifted(6), n),
                              SumBits(Shifted(5), Shifted(3), n), n)
           lead == CHOOSE i \in 1..n : product[i] = 1 /\ \A j \in 1..(i - 1) : product[j] = 0
       IN  RoundToDouble(SubSeq(product, lead, n), x.exp + 9 - (lead - 1))

\* x + y for doubles with x.exp >= y.exp, both above 0
AlignedPlus(x, y, shift) ==
  IF shift > Precision + 2 THEN x
  ELSE LET a == [i \in 1..(Precision + shift) |-> IF i <= Precision THEN x.bits[i] ELSE 0]
           b == [i \in 1..(Precision + shift) |-> IF i <= shift THEN 0 ELSE y.bits[i - shift]]
           sum == SumBits(a, b, Precision + shift)
       IN  RoundToDouble(sum, x.exp + Len(sum) - (Precision + shift))

\* x + y
DoublePlus(x, y) ==
  IF x = DoubleZero THEN y
  ELSE IF y = DoubleZero THEN x
  ELSE IF x.exp >= y.exp THEN AlignedPlus(x, y, x.exp - y.exp)
  ELSE AlignedPlus(y, x, y.exp - x.exp)

\* one range of the gradient, `${color} ${start}deg ${end}deg`: the angles
\* are kept as the doubles the text is written from
Range(color, start, end) == [color |-> color, start |-> start, end |-> end]
\* 'conic-gradient(#dceaf2 0deg, #dceaf2 360deg)'
PlaceholderGradient == <<Range("#dceaf2", DoubleZero, Double360)>>

\* segments.map(...) of buildChartGradient, current carried along
RECURSIVE GradientRanges(_, _, _)
GradientRanges(segments, total, current) ==
  IF segments = <<>> THEN <<>>
  ELSE LET degree == DoubleTimes360(DoubleOfRatio(Head(segments).value.v, total.v))
           end == DoublePlus(current, degree)
       IN  <<Range(Head(segments).color, current, end)>>
             \o GradientRanges(Tail(segments), total, end)

buildChartGradient(segments) ==
  LET total == reduceSum([i \in 1..Len(segments) |-> segments[i].value], Num(0))
  IN  IF total = Num(0) THEN PlaceholderGradient
      ELSE GradientRanges(segments, total, DoubleZero)

\* ----------------------------------------------------------------- claims
\* the step in which the server handles request m
Serving(m) == m \in net /\ net' = net \ {m} /\ req' = m /\ m.tag = 0

StoredFields == {"name", "brand", "category", "stock", "rawPrice", "sellingPrice",
                 "minStockAlert"}

\* the body supplies a value for field f (the selling price also through its
\* alias price)
Supplied(body, f) ==
  \/ body[f].k # "undefined"
  \/ f = "sellingPrice" /\ body.price.k # "undefined"

\* submitted value if present, else the existing item's value
ResolvedRawPrice(body, cur) == toNumber(Coalesce(body.rawPrice, cur.rawPrice))
ResolvedSellingPrice(body, cur) ==
  toNumber(Coalesce(body.sellingPrice, Coalesce(body.price, cur.sellingPrice)))

\* the item a request addresses: none for a create
Addressed(m) ==
  IF m.method = "PUT" /\ findIndex(inventory, m.id) # 0
  THEN inventory[findIndex(inventory, m.id)] ELSE NoItem

PriceOrder ==
  \A i \in 1..Len(inventory) :
    /\ IsFinite(inventory[i].sellingPrice) /\ IsFinite(inventory[i].rawPrice)
    /\ inventory[i].sellingPrice.v >= inventory[i].rawPrice.v

RejectsInversion ==
  \A m \in net :
    (/\ Serving(m)
     /\ m.method = "POST" \/ (m.method = "PUT" /\ findIndex(inventory, m.id) # 0)
     /\ Lt(ResolvedSellingPrice(m.body, Addressed(m)), ResolvedRawPrice(m.body, Addressed(m))))
    => res'.status = 400 /\ inventory' = inventory

\* C1: every stored item has sellingPrice >= rawPrice in every reachable
\* state, and a create or update whose resolved sellingPrice is below its
\* resolved rawPrice is answered 400 and leaves the store unchanged,
\* whichever fields the body supplies.
C1_SellingNotBelowRaw == [](PriceOrder) /\ [][RejectsInversion]_vars

\* an update supplying only the price alias, below the stored rawPrice, was
\* rejected
C1_Witness ==
  /\ req.method = "PUT" /\ res.status = 400
  /\ req.body = [EmptyBody EXCEPT !.price = Num(100)]
  /\ Lt(Num(100), Addressed(req).rawPrice)

\* C2: a successful create returns an id strictly greater than every id
\* that ever existed in the store, ids of deleted items included.
C2_IdAboveEveryEarlierId ==
  [][\A m \in net :
       (Serving(m) /\ m.method = "POST" /\ res'.status = 201)
       => \A i \in issued : res'.item.id > i]_vars

\* C3: no two items of the store have the same id, and every id is a
\* positive integer.
C3_UniquePositiveIds ==
  /\ \A i, j \in 1..Len(inventory) : inventory[i].id = inventory[j].id => i = j
  /\ \A i \in 1..Len(inventory) : inventory[i].id \in Nat \ {0}

\* an item was created after an earlier one had been deleted
C3_Witness ==
  /\ req.method = "POST" /\ res.status = 201
  /\ \E i \in issued : i \notin Ids(inventory)

\* C4: a successful create assigns the largest id of the store plus one, or
\* 1 when the store is empty, appends the new item as the last element
\* and leaves the items before it as they were.
C4_CreateAppendsMaxPlusOne ==
  [][\A m \in net :
       (Serving(m) /\ m.method = "POST" /\ res'.status = 201)
       => LET n == Len(inventory)
              expected ==
                IF n = 0 THEN 1
                ELSE 1 + CHOOSE x \in Ids(inventory) : \A y \in Ids(inventory) : y <= x
          IN  /\ Len(inventory') = n + 1
              /\ SubSeq(inventory', 1, n) = inventory
              /\ inventory'[n + 1].id = expected
              /\ res'.item.id = expected]_vars

\* a create into the emptied store succeeded
C4_Witness ==
  /\ req.method = "POST" /\ res.status = 201
  /\ Len(inventory) = 1 /\ inventory[1].id = 1

C6_DeleteMissingIsNoOp ==
  [][\A m \in net :
       (Serving(m) /\ m.method = "DELETE" /\ m.id \notin Ids(inventory))
       => res'.status = 404 /\ inventory' = inventory]_vars

C6_Witness ==
  /\ req.method = "DELETE" /\ res.status = 404
  /\ req.id \notin Ids(inventory) /\ Len(inventory) > 0

\* C7: a successful update leaves every field its body supplies no value
\* for equal to the value of the prior record.
C7_PartialUpdateKeepsRest ==
  [][\A m \in net :
       (Serving(m) /\ m.method = "PUT" /\ res'.status = 200)
       => LET index == findIndex(inventory, m.id)
          IN  \A f \in StoredFields :
                ~Supplied(m.body, f) => inventory'[index][f] = inventory[index][f]]_vars

\* PUT {stock: 20} changed the stock of an item and nothing else
C7_Witness ==
  /\ req.method = "PUT" /\ res.status = 200
  /\ req.body = [EmptyBody EXCEPT !.stock = Num(20)]
  /\ res.item.stock = Num(20) /\ res.item.minStockAlert # Num(10)

\* C8: an update of an id no item has is answered 404; any other update
\* changes at most the addressed item, which keeps its position and its id
\* whatever id the body carries; the other items and the length of the
\* store are unchanged.
C8_UpdateInPlace ==
  [][\A m \in net :
       (Serving(m) /\ m.method = "PUT")
       => LET index == findIndex(inventory, m.id)
          IN  IF index = 0 THEN res'.status = 404 /\ inventory' = inventory
              ELSE /\ Len(inventory') = Len(inventory)
                   /\ \A i \in 1..Len(inventory) : i # index => inventory'[i] = inventory[i]
                   /\ inventory'[index].id = m.id]_vars

\* an update whose body carries another id succeeded on an item that is not
\* the last of the store
C8_Witness ==
  /\ req.method = "PUT" /\ res.status = 200
  /\ req.body.id = Num(99)
  /\ findIndex(inventory, req.id) < Len(inventory)

\* C9: a create or update answered 400 leaves the store exactly as it was.
C9_RejectedLeavesStore ==
  [][\A m \in net :
       (Serving(m) /\ m.method \in {"POST", "PUT"} /\ res'.status = 400)
       => inventory' = inventory]_vars

C9_Witness ==
  /\ req.method = "POST" /\ res.status = 400
  /\ req.body.stock = Num(0 - 1)

NonNegativeFinite(x) == IsFinite(x) /\ x.v >= 0

\* C10: no stored item has a negative or non-finite stock, rawPrice,
\* sellingPrice or minStockAlert, the validator failing whenever one of
\* them resolves to such a value.
C10_NumbersFiniteNonNegative ==
  \A i \in 1..Len(inventory) :
    /\ NonNegativeFinite(inventory[i].stock)
    /\ NonNegativeFinite(inventory[i].rawPrice)
    /\ NonNegativeFinite(inventory[i].sellingPrice)
    /\ NonNegativeFinite(inventory[i].minStockAlert)

\* C11: a create whose body supplies neither rawPrice nor sellingPrice nor
\* price is answered with the error 'Raw price and selling price are
\* required.', and a create that supplies rawPrice and the alias price in
\* place of sellingPrice is not answered with that error.
C11_MissingPriceOnCreate ==
  [][\A m \in net :
       (Serving(m) /\ m.method = "POST")
       => /\ (/\ m.body.rawPrice = Undefined
              /\ m.body.sellingPrice = Undefined
              /\ m.body.price = Undefined)
             => res'.status = 400 /\ res'.error = ErrMissingPrice
          /\ (/\ m.body.rawPrice # Undefined
              /\ m.body.sellingPrice = Undefined
              /\ m.body.price # Undefined)
             => res'.error # ErrMissingPrice]_vars

\* the text a body resolves a field to: the trimmed submitted value if one is
\* present, else the existing item's value (none on create)
ResolvedText(x, cur) == IF x.k \in {"undefined", "null"} THEN cur ELSE Str(Trim(x.s))
EmptyText(x) == x.k # "string" \/ x.s = ""

StoredTextTrimmed ==
  \A i \in 1..Len(inventory) : \A f \in {"name", "brand", "category"} :
    /\ inventory[i][f].k = "string"
    /\ inventory[i][f].s # ""
    /\ Trim(inventory[i][f].s) = inventory[i][f].s

RejectsEmptyText ==
  \A m \in net :
    (/\ Serving(m)
     /\ m.method = "POST" \/ (m.method = "PUT" /\ findIndex(inventory, m.id) # 0)
     /\ \E f \in {"name", "brand", "category"} :
          EmptyText(ResolvedText(m.body[f], Addressed(m)[f])))
    => res'.status = 400 /\ res'.error = ErrMissingField /\ inventory' = inventory

\* C12: a create or update whose resolved name, brand or category is empty
\* after trimming is answered 400 with the missing-field error (an update
\* submitting an empty or blank value does not fall back to the stored one),
\* and every stored name, brand and category is trimmed and non-empty.
C12_EmptyTextRejected == [](StoredTextTrimmed) /\ [][RejectsEmptyText]_vars

\* the item contains the lower-cased query q in its name, brand or category,
\* whatever the case of their letters; every item does for the empty query
Hit(item, q) ==
  \/ q = ""
  \/ \E f \in {"name", "brand", "category"} :
       \E i \in 1..Len(item[f].s) : \E j \in i..Len(item[f].s) :
         toLowerCase(SubSeq(item[f].s, i, j)) = q

\* the response lists exactly the items of the store that contain q, as
\* stored and in the order of the store
Found(out, q) ==
  /\ \A k \in 1..Len(out) :
       \E i \in 1..Len(inventory) :
         out[k] = buildItemResponse(inventory[i]) /\ Hit(inventory[i], q)
  /\ \A i \in 1..Len(inventory) :
       Hit(inventory[i], q) => \E k \in 1..Len(out) : out[k].id = inventory[i].id
  /\ \A k, l \in 1..Len(out) :
       k < l => findIndex(inventory, out[k].id) < findIndex(inventory, out[l].id)

\* C13 as stated: a search returns exactly the items whose name, brand or
\* category contains the lower-cased query, in storage order, every item
\* for the empty query, and leaves the store as it was.
C13_SearchExact ==
  [][\A m \in net :
       (Serving(m) /\ m.method = "GET")
       => /\ res'.status = 200
          /\ Found(res'.items, toLowerCase(m.q))
          /\ inventory' = inventory]_vars

\* C13 amended: the same with the query the build searches for: lower-cased,
\* and in the part_000 build trimmed of surrounding blanks first.
C13_SearchExactTrimmed ==
  [][\A m \in net :
       (Serving(m) /\ m.method = "GET")
       => /\ res'.status = 200
          /\ Found(res'.items, toLowerCase(IF build = "part" THEN Trim(m.q) ELSE m.q))
          /\ inventory' = inventory]_vars

\* a search for VAPE found the seeded and the created items of brand VapeX,
\* and not the whole store
C13_Witness ==
  /\ req.method = "GET" /\ req.q = "VAPE" /\ res.status = 200
  /\ Len(res.items) >= 2 /\ Len(res.items) < Len(inventory)
  /\ res.items[Len(res.items)].id > 5

\* the items a response carries
ItemsOf(r) ==
  {r.items[k] : k \in 1..Len(r.items)} \cup (IF r.item.id # 0 THEN {r.item} ELSE {})

\* r is the stored record of its id with profit and price added
Shaped(r, inv) ==
  \E i \in 1..Len(inv) :
    /\ inv[i].id = r.id
    /\ \A f \in DOMAIN inv[i] : r[f] = inv[i][f]
    /\ r.profit = [k |-> "number", s |-> "", v |-> inv[i].sellingPrice.v - inv[i].rawPrice.v]
    /\ r.price = inv[i].sellingPrice

NothingDerivedStored ==
  \A i \in 1..Len(inventory) :
    "profit" \notin DOMAIN inventory[i] /\ "price" \notin DOMAIN inventory[i]

\* C14: every item a GET, POST or PUT returns carries profit = sellingPrice -
\* rawPrice and price = sellingPrice, computed from the values stored when
\* the response is made, and no stored record has a profit or price field.
C14_DerivedOnResponse ==
  /\ [](NothingDerivedStored)
  /\ [][\A m \in net :
          (Serving(m) /\ m.method \in {"GET", "POST", "PUT"} /\ res'.status \in {200, 201})
          => \A r \in ItemsOf(res') : Shaped(r, inventory')]_vars

\* an update raised a selling price and its response carries the new profit
C14_Witness ==
  /\ req.method = "PUT" /\ res.status = 200
  /\ res.item.price = Num(600) /\ res.item.profit = Num(600 - 340)

\* the record a successful create or update has written
Written(m) ==
  IF m.method = "POST" THEN inventory'[Len(inventory')]
  ELSE inventory'[findIndex(inventory, m.id)]

Present(x) == x.k \in {"number", "string"}

\* the fields of the written record against the body b and the record cur the
\* request addresses
ResolvesFields(m) ==
  LET b == m.body
      cur == Addressed(m)
      new == Written(m)
  IN  /\ \A f \in {"name", "brand", "category"} :
           /\ b[f].k = "string" => new[f] = Str(Trim(b[f].s))
           /\ b[f] = Undefined => new[f] = cur[f]
      /\ \A f \in {"stock", "rawPrice", "minStockAlert"} :
           /\ Present(b[f]) => new[f] = toNumber(b[f])
           /\ b[f] = Undefined =>
                new[f] = IF f = "minStockAlert" /\ m.method = "POST" THEN Num(10) ELSE cur[f]
      /\ Present(b.sellingPrice) => new.sellingPrice = toNumber(b.sellingPrice)
      /\ (b.sellingPrice = Undefined /\ Present(b.price)) =>
           new.sellingPrice = toNumber(b.price)
      /\ (b.sellingPrice = Undefined /\ b.price = Undefined) =>
           new.sellingPrice = cur.sellingPrice
      /\ m.method = "POST" =>
           /\ \A f \in {"name", "brand", "category", "stock", "rawPrice"} : b[f] # Undefined
           /\ b.sellingPrice # Undefined \/ b.price # Undefined

C16_StockIsInteger ==
  \A i \in 1..Len(inventory) :
    /\ IsInteger(inventory[i].stock)
    /\ inventory[i].stock.v >= 0

\* the step in which the user submits the record-sale modal filled with item
\* id and quantity text
SaleSubmitted(id, text) ==
  /\ ui'.saleForm = [itemId |-> id, quantity |-> text]
  /\ inbox' = inbox
  /\ <<ui, tasks>>' # <<ui, tasks>>

\* C17: a record-sale submission whose quantity exceeds the stock the
\* client's item list holds for the selected item sends no request and
\* leaves the server's store and the sales log unchanged.
C17_OversaleRejectedLocally ==
  [][\A id \in PickIds, text \in SaleTexts :
       (/\ SaleSubmitted(id, text)
        /\ FindItem(items, id) # NoClientItem
        /\ Lt(toNumber(FindItem(items, id).stock), StringToNumber(text)))
       => /\ net' = net /\ tasks' = tasks
          /\ inventory' = inventory /\ salesLog' = salesLog]_vars

\* a sale of 20 of an item the list shows 12 of was submitted, and nothing
\* was sent or recorded
C17_Witness ==
  /\ ui.saleForm = [itemId |-> "5", quantity |-> "20"]
  /\ FindItem(items, "5").stock = Num(12)
  /\ net = {} /\ inbox = {} /\ salesLog = <<>>
  /\ \A t \in tasks : t.pc = "done"
  /\ inventory = Seed

\* the step in which the record-sale handler t gets the answer msg to its update
SaleAnswered(t, msg) ==
  /\ msg \in inbox /\ t \in tasks
  /\ t.tag = msg.tag /\ t.kind = "sale" /\ t.pc = "put"
  /\ inbox' = inbox \ {msg}

\* the step in which the server answers the update m of the record-sale handler t
SaleServed(t, m) ==
  /\ m \in net /\ t \in tasks
  /\ t.tag = m.tag /\ t.kind = "sale" /\ t.pc = "put"
  /\ net' = net \ {m}

\* the handler that starts takes the item and the quantity of the modal
SaleTaken ==
  \A t \in tasks' :
    (t.kind = "sale" /\ \A u \in tasks : u.tag # t.tag) =>
      /\ t.quantity = StringToNumber(ui'.saleForm.quantity)
      /\ t.item = FindItem(items, ui'.saleForm.itemId)

\* one record is put in front of the log when the update succeeded, none
\* when it failed
SaleLogged ==
  \A t \in tasks : \A msg \in inbox :
    SaleAnswered(t, msg) =>
      IF msg.r.status \in 200..299
      THEN /\ Len(salesLog') = Len(salesLog) + 1
           /\ Tail(salesLog') = salesLog
           /\ salesLog'[1].itemId = t.item.id
           /\ salesLog'[1].quantity = t.quantity
           /\ salesLog'[1].sellingPrice = t.item.sellingPrice
           /\ salesLog'[1].totalAmount.k = "number"
           /\ salesLog'[1].totalAmount.v * (1 + 1) = t.item.sellingPrice.v * t.quantity.v
      ELSE salesLog' = salesLog

\* the log changes in no other step
SaleLoggedOnlyThen ==
  salesLog' # salesLog =>
    \E t \in tasks : \E msg \in inbox : SaleAnswered(t, msg) /\ msg.r.status \in 200..299

\* a successful update leaves the server with the client's view of the stock
\* less the quantity
SaleApplied ==
  \A t \in tasks : \A m \in net :
    (SaleServed(t, m) /\ \E x \in inbox' \ inbox : x.tag = m.tag /\ x.r.status = 200)
    => /\ inventory'[findIndex(inventory, m.id)].stock.k = "number"
       /\ inventory'[findIndex(inventory, m.id)].stock.v = t.item.stock.v - t.quantity.v

\* C18: a record-sale submission puts exactly one record in the sales log,
\* with the submitted quantity, the item's selling price and totalAmount =
\* sellingPrice x quantity, if and only if its update succeeded; a failed
\* update (400, 404, transport error) leaves the log unchanged; a successful
\* one sets the server's stock to the client's view of it minus the quantity.
C18_SaleRecordedIffUpdated ==
  [][SaleTaken /\ SaleLogged /\ SaleLoggedOnlyThen /\ SaleApplied]_vars

\* a sale of 12 at 520 was recorded after the server had set the stock to 0
C18_Witness ==
  /\ Len(salesLog) = 1
  /\ salesLog[1].quantity = Num(12) /\ salesLog[1].totalAmount = Num(6240)
  /\ findIndex(inventory, 5) # 0 /\ inventory[findIndex(inventory, 5)].stock = Num(0)
  /\ ui.saleForm = EmptyPick

\* what the server validator answers to a request under way, against the
\* item the request names when the inventory has it
ValidatorError(m) ==
  LET index == findIndex(inventory, m.id)
      current == IF m.method = "PUT" /\ index # 0 THEN inventory[index] ELSE NoItem
  IN  validateAndNormalizeItem(build, m.body, current, m.method = "POST").error

\* C19: every POST and PUT a client handler (add, edit, add-stock,
\* record-sale) has sent carries a body the server validator accepts: the
\* client has applied the field checks first, so that no request under way is
\* one the server rejects with 400.
C19_ClientChecksBeforeSending ==
  \A m \in net :
    (m.tag # 0 /\ m.method \in {"POST", "PUT"}) => ValidatorError(m) = ""

\* a submit handler takes the answer to its PUT or POST, and the answer is a
\* failure: an error response of the server, or the fetch rejected
SubmissionFailed(t, msg) ==
  /\ msg \in inbox /\ t \in tasks /\ t.tag = msg.tag
  /\ t.kind \in {"form", "stock", "sale"} /\ t.pc \in {"put", "post"}
  /\ ~Ok(msg.r)
  /\ inbox' = inbox \ {msg}
  /\ t \notin tasks'

InputPreserved ==
  /\ ui'.form = ui.form
  /\ ui'.variantEntries = ui.variantEntries
  /\ ui'.editingId = ui.editingId
  /\ ui'.stockForm = ui.stockForm
  /\ ui'.saleForm = ui.saleForm
  /\ ui'.open = ui.open

\* C20: the step in which a submit handler (add, edit, add-stock,
\* record-sale) learns that its request failed leaves the form fields, the
\* variant entries, editingId, stockForm and saleForm as they were, and
\* closes no modal.
C20_InputPreservedOnFailure ==
  [][(\E t \in tasks : \E msg \in inbox : SubmissionFailed(t, msg)) => InputPreserved]_vars

\* an edit the server has rejected: the modal is open with what was typed
C20_Witness ==
  /\ ui.error = ErrMissingField
  /\ ui.form.name = " " /\ ui.form.brand # ""
  /\ ui.editingId = 5
  /\ "edit" \in ui.open
  /\ \A t \in tasks : t.pc = "done"

\* the sum of f over the indices in S
RECURSIVE SumOver(_, _)
SumOver(S, f) ==
  IF S = {} THEN 0
  ELSE LET i == CHOOSE j \in S : TRUE
       IN  f[i] + SumOver(S \ {i}, f)

\* stock, selling price, raw price and alert level of the client's items, in
\* halves
StockOf(i) == toNumber(items[i].stock).v
SellingOf(i) == sellingPriceOf(items[i]).v
RawOf(i) == rawPriceOf(items[i]).v
AlertOf(i) ==
  IF items[i].minStockAlert.k \in {"undefined", "null"} THEN 10 + 10
  ELSE toNumber(items[i].minStockAlert).v
OutOfStock(i) == StockOf(i) = 0
LowStock(i) == 0 < StockOf(i) /\ StockOf(i) <= AlertOf(i)

\* C21: for the item list the page shows, totalStock is the sum of the
\* stocks, inventoryValue the sum of stock x sellingPrice, capitalInvested
\* the sum of stock x rawPrice, outOfStockCount the number of items with
\* stock 0, lowStockCount the number of items with 0 < stock <= minStockAlert
\* (10 when absent), and no item is both out of stock and low on stock.
C21_ScalarTotals ==
  LET I == 1..Len(items)
  IN  /\ totalStock(items) = Fixed(SumOver(I, [i \in I |-> StockOf(i)]))
      /\ inventoryValue(items).k = "number"
      /\ inventoryValue(items).v * 2 = SumOver(I, [i \in I |-> StockOf(i) * SellingOf(i)])
      /\ capitalInvested(items).k = "number"
      /\ capitalInvested(items).v * 2 = SumOver(I, [i \in I |-> StockOf(i) * RawOf(i)])
      /\ outOfStockCount(items) = Cardinality({i \in I : OutOfStock(i)})
      /\ lowStockCount(items) = Cardinality({i \in I : LowStock(i)})
      /\ \A i \in I : ~(OutOfStock(i) /\ LowStock(i))

\* seven items on the page, one out of stock and one low on stock
C21_Witness ==
  /\ Len(items) = 7
  /\ outOfStockCount(items) >= 1
  /\ lowStockCount(items) >= 1
  /\ totalStock(items) = Num(24 + 15 + 40 + 28 + 6 + 2 + 0)

\* the category an item is grouped under
CategoryOf(item) == IF item.category.k = "string" /\ item.category.s # "" THEN item.category.s
                    ELSE "Uncategorized"
StockIn(list, category) ==
  SumOver({i \in 1..Len(list) : CategoryOf(list[i]) = category},
          [i \in 1..Len(list) |-> toNumber(list[i].stock).v])

\* what the claim says of the segments of one item list
Grouped(list) ==
  LET segments == categorySegments(list)
      S == 1..Len(segments)
  IN  /\ {segments[s].label : s \in S} = {CategoryOf(list[i]) : i \in 1..Len(list)}
      /\ \A s, t \in S : segments[s].label = segments[t].label => s = t
      /\ \A s \in S : segments[s].value = Fixed(StockIn(list, segments[s].label))
      /\ \A s, t \in S : s < t => segments[s].value.v >= segments[t].value.v
      /\ \A s \in S : segments[s].color = chartPalette[((s - 1) % 6) + 1]
      /\ Fixed(SumOver(S, [s \in S |-> segments[s].value.v])) = totalStock(list)

\* an item of the page with another category and stock
Labelled(category, stock) ==
  [ClientItem(buildItemResponse(Seed[1])) EXCEPT !.category = Str(category), !.stock = Num(stock)]
\* the example: A:5, A:3, B:2
GroupingExample == <<Labelled("A", 5), Labelled("A", 3), Labelled("B", 2)>>
\* more categories than the palette has colours, one of them empty
SevenCategories ==
  <<Labelled("A", 1), Labelled("B", 7), Labelled("", 3), Labelled("D", 4),
    Labelled("E", 5), Labelled("F", 6), Labelled("G", 2), Labelled("B", 1)>>

\* C22: the segments of the page's item list are one per category, each with
\* the summed stock of its items, sorted by value from the largest down,
\* coloured by rank from the cyclic palette, and their values add up to
\* totalStock; so are those of a list with seven categories, one of them
\* empty; and A:5, A:3, B:2 yields [A:8, B:2].
C22_CategorySegments ==
  /\ Grouped(items)
  /\ Grouped(SevenCategories)
  /\ categorySegments(SevenCategories)[7].color = chartPalette[1]
  /\ \E s \in 1..7 : categorySegments(SevenCategories)[s].label = "Uncategorized"
  /\ LET example == categorySegments(GroupingExample)
     IN  /\ Len(example) = 2
         /\ example[1].label = "A" /\ example[1].value = Num(8)
         /\ example[2].label = "B" /\ example[2].value = Num(2)

\* seven items on the page in five categories, Pods second with 28 + 2 + 0
C22_Witness ==
  /\ Len(items) = 7
  /\ Len(categorySegments(items)) = 5
  /\ categorySegments(items)[1].label = "Coils"
  /\ categorySegments(items)[2].label = "Pods"
  /\ categorySegments(items)[2].value = Num(30)

\* stock x sellingPrice of the i-th item of the page, in quarters
ValueOf(i) == StockOf(i) * SellingOf(i)

\* C24: topProductsByValue of the page's item list has min(6, number of
\* items) entries, each an item of the list with its stock x sellingPrice, no
\* item twice, sorted by value from the largest down; every item left out has
\* a value no greater than the smallest included; and the item list is as it
\* was.
C24_TopProductsByValue ==
  LET top == topProductsByValue(items)
      I == 1..Len(items)
      K == 1..Len(top)
  IN  /\ Len(top) = (IF Len(items) < 6 THEN Len(items) ELSE 6)
      /\ \A k \in K : \E i \in I :
           /\ \A f \in DOMAIN items[i] : top[k][f] = items[i][f]
           /\ top[k].value.k = "number" /\ top[k].value.v * 2 = ValueOf(i)
      /\ \A k, l \in K : top[k].id = top[l].id => k = l
      /\ \A k, l \in K : k < l => top[k].value.v >= top[l].value.v
      /\ \A i \in I : (\A k \in K : top[k].id # items[i].id) =>
           \A k \in K : ValueOf(i) <= top[k].value.v * 2
      /\ itemsAfterTopProducts(items) = items

\* seven items on the page: six ranked, the variant without stock left out
C24_Witness ==
  /\ Len(items) = 7
  /\ Len(topProductsByValue(items)) = 6
  /\ topProductsByValue(items)[1].id = 1
  /\ \E i \in 1..7 : /\ items[i].name = Str("Blue")
                     /\ \A k \in 1..6 : topProductsByValue(items)[k].id # items[i].id

\* the server takes the PUT of the add-stock handler t
StockServed(t, m) ==
  /\ m \in net /\ t \in tasks /\ t.tag = m.tag
  /\ t.kind = "stock" /\ t.pc = "put" /\ m.method = "PUT"
  /\ net' = net \ {m}

\* the stock the server holds for the item the handler t is about
ServerStock(t) == inventory[findIndex(inventory, t.item.id)].stock

\* an add-stock handler whose PUT the server has taken and that has not
\* finished its reload
Applied(t) ==
  /\ t.kind = "stock" /\ t.pc \in {"put", "get"}
  /\ \A m \in net : m.tag = t.tag => m.method # "PUT"

\* the server sets the stock to the handler's view plus its quantity,
\* whatever stock it held
WritesViewPlusQuantity ==
  \A t \in tasks : \A m \in net :
    StockServed(t, m) =>
      inventory'[findIndex(inventory, m.id)].stock = Plus(toNumber(t.item.stock), t.quantity)

\* two handlers, the only ones called, that took the same view of the item:
\* once the server has taken both PUTs it holds the view plus one of the two
\* quantities
OneQuantityLost ==
  \A t, u \in tasks :
    (tasks = {t, u} /\ t.tag # u.tag /\ Applied(t) /\ Applied(u) /\ t.item = u.item) =>
      /\ ServerStock(t) \in {Plus(toNumber(t.item.stock), t.quantity),
                             Plus(toNumber(u.item.stock), u.quantity)}
      /\ ServerStock(t) # Plus(Plus(toNumber(t.item.stock), t.quantity), u.quantity)

\* C23: an add-stock PUT carries the stock of the handler's view plus its
\* quantity and the server stores that value as it is; so when two add-stock
\* submissions for an item, with no other handler called, took the same view
\* (the second was submitted before the first one's reload reached the item
\* list), the server ends up with the viewed stock plus one of the two
\* quantities, not with the sum of both.
C23_DoubleAddStockLosesOne ==
  [](OneQuantityLost) /\ [][WritesViewPlusQuantity]_vars

\* 3 and 4 added to the 12 of item 5 from the same view, both PUTs answered
\* with 200: the server holds 15
C23_Witness ==
  /\ \E t, u \in tasks :
       /\ t.quantity = Num(3) /\ u.quantity = Num(4)
       /\ t.kind = "stock" /\ u.kind = "stock"
       /\ t.pc = "get" /\ u.pc = "get"
       /\ t.item = u.item
  /\ inventory[5].stock = Num(15)

\* no request under way, no answer waiting, every handler returned
Settled ==
  /\ net = {} /\ inbox = {} /\ res = NoResponse
  /\ \A t \in tasks : t.pc = "done"

\* the quantities of the sales log's records of one item, added up, in halves
SoldOf(id) ==
  SumOver({k \in 1..Len(salesLog) : salesLog[k].itemId = id},
          [k \in 1..Len(salesLog) |-> salesLog[k].quantity.v])

\* C27: with record-sale submissions of the one client as the only writes,
\* once every request has completed the quantities logged for an item add up
\* to the stock the item had before the sales minus the stock the server
\* holds for it.
C27_SalesLogMatchesStock ==
  Settled =>
    \A i \in 1..Len(inventory) :
      SoldOf(inventory[i].id) = Seed[i].stock.v - inventory[i].stock.v

\* the items the sales log has records of
SoldIds == {salesLog[k].itemId : k \in 1..Len(salesLog)}
RevenueOf(id) ==
  SumOver({k \in 1..Len(salesLog) : salesLog[k].itemId = id},
          [k \in 1..Len(salesLog) |-> salesLog[k].totalAmount.v])

\* C25: total revenue is the sum of totalAmount over the sales log, total
\* units the sum of quantity; revenue-by-product has one entry per item sold
\* (at most 7), sorted by revenue from the largest down, and each entry holds
\* the summed revenue and units of the records of one item: two items with
\* different ids are two products.
C25_SalesFigures ==
  LET products == salesRevenueByProduct(salesLog)
      P == 1..Len(products)
      K == 1..Len(salesLog)
  IN  /\ totalSalesRevenue(salesLog) = Fixed(SumOver(K, [k \in K |-> salesLog[k].totalAmount.v]))
      /\ totalUnitsSold(salesLog) = Fixed(SumOver(K, [k \in K |-> salesLog[k].quantity.v]))
      /\ Len(products) = (IF Cardinality(SoldIds) < 7 THEN Cardinality(SoldIds) ELSE 7)
      /\ \A p, q \in P : p < q => products[p].revenue.v >= products[q].revenue.v
      /\ \A p \in P : \E id \in SoldIds :
           /\ products[p].revenue = Fixed(RevenueOf(id))
           /\ products[p].units = Fixed(SoldOf(id))

\* the stored items the query q selects, as the page would hold them
Selected(q) ==
  LET query == toLowerCase(Trim(q))
      hits == SelectSeq(inventory, LAMBDA item :
                query = "" \/ \E f \in {item.name, item.brand, item.category} :
                                 Includes(toLowerCase(f.s), query))
  IN  [i \in 1..Len(hits) |-> ClientItem(buildItemResponse(hits[i]))]

\* C28: once no client request is under way and every handler has returned,
\* the item list of the page is the server's inventory filtered by the query
\* of the load issued last (the search text: each run has the first load and
\* at most one more handler, whose load takes the search text), whatever
\* order the answers to the loads came in.
C28_ItemsMatchLastLoad == Settled => items = Selected(search)

\* C29: a batch add creates all of its entries or none: once nothing is under
\* way and the add modal is still open (the add did not go through: a check
\* of the form failed, or one of its POSTs), the store holds no item beyond
\* those it started with.
C29_BatchAddAllOrNone ==
  (Settled /\ "add" \in ui.open) => \A i \in 1..Len(inventory) : inventory[i].id \in Ids(Seed)

\* C30: an update addressed to an id no item has is answered 404 whatever its
\* body is, also a body the validator rejects (sellingPrice below rawPrice,
\* an empty name): never 400, and the store is as it was.
C30_MissingBeforeInvalid ==
  [][\A m \in net :
       (Serving(m) /\ m.method = "PUT" /\ findIndex(inventory, m.id) = 0)
       => /\ res'.status = 404
          /\ res'.error = "Item not found."
          /\ inventory' = inventory]_vars

\* item 5 deleted, then updated with sellingPrice below rawPrice: 404
C30_Witness ==
  /\ req.method = "PUT" /\ req.id = 5 /\ res.status = 404
  /\ req.body.rawPrice = Num(600) /\ req.body.sellingPrice = Num(100)
  /\ validateAndNormalizeItem(build, req.body, Seed[5], FALSE).error = ErrInversion

\* C26: the gradient of the page's category segments is the one placeholder
\* range from 0 to 360 when there is no segment or the values add up to 0;
\* otherwise it has one range per segment, in order and in the segment's
\* colour, the first starting at 0, each starting where the one before it
\* ended and reaching value / total x 360 further, the last ending at 360.
C26_GradientPartition ==
  LET segments == categorySegments(items)
      gradient == buildChartGradient(segments)
      S == 1..Len(segments)
  IN  IF totalStock(items) = Num(0)
      THEN /\ Len(gradient) = 1
           /\ gradient[1].start = DoubleZero /\ gradient[1].end = Double360
      ELSE /\ Len(gradient) = Len(segments)
           /\ gradient[1].start = DoubleZero
           /\ \A s \in S : gradient[s].color = segments[s].color
           /\ \A s \in S : s > 1 => gradient[s].start = gradient[s - 1].end
           /\ \A s \in S :
                gradient[s].end =
                  DoublePlus(gradient[s].start,
                             DoubleTimes360(DoubleOfRatio(segments[s].value.v, totalStock(items).v)))
           /\ gradient[Len(gradient)].end = Double360
====
